---------------------------- MODULE Spec2Model ----------------------------
(***************************************************************************)
(* A model of the relay: the hackr.tv socket adapter (internal/hackrtv),   *)
(* the fan-out dispatcher of main.go with its display and uplink sinks,    *)
(* and the pure predicate isBridgeEcho.                                    *)
(*                                                                         *)
(* Strings the code inspects character by character (usernames, contents)  *)
(* are sequences of one-character strings; strings the code only compares  *)
(* or copies are TLA+ strings.                                             *)
(***************************************************************************)
EXTENDS Integers, Sequences, FiniteSets, TLC

VARIABLES
    \* ---- shared by the tasks
    messages,       \* main.go:119  the unified channel (its buffer, oldest first)
    ctxDone,        \* main.go:106  the shared cancellation signal has fired
    \* ---- hackrtv.Client.Connect and its readLoop goroutine
    connPc,         \* where Connect is: "dial","welcome","subscribe","select","returned"
    loopPc,         \* where readLoop is: "idle","read","send","done"
    firstFrame,     \* what waitForWelcome's ReadJSON returned
    framesRead,     \* history: the frames readLoop's ReadJSON decoded, in order
    pending,        \* the packets of the current frame still to be ranged over
    readErr,        \* the readErr channel (capacity 1): NoValue or an error
    connectResult,  \* Connect's return value, NoValue while it runs
    outbound,       \* history: the frames Connect wrote to the peer
    emitted,        \* history: the Messages readLoop sent on the unified channel
    connClosed,     \* the deferred conn.Close() has run
    firstEvent,     \* history: which came first, the cancellation signal
                    \* ("signal") or the end of readLoop ("loop"); "none" before
    \* ---- main's dispatcher goroutine, printer.Run and uplink Client.Run
    bridge,         \* cfg.Bridge
    srcOpen,        \* source adapters whose Connect has not returned yet
    messagesClosed, \* close(messages) has run
    dispPc,         \* dispatcher: "recv","print","offer","done"
    dispMsg,        \* the dispatcher's loop variable msg
    printerCh,      \* main.go:122
    printerClosed,
    uplinkCh,       \* main.go:126 (unused when bridge is off: a nil channel)
    uplinkClosed,
    printerPc,      \* printer.Run: "run","done"
    upPc,           \* uplink Run: "wait","send","inflight","cooldown","done"
    upMsg,          \* the message uplink Run is sending
    received,       \* history: what the dispatcher took from messages
    displayed,      \* history: what the dispatcher put on printerCh
    bridged,        \* history: what the dispatcher put on uplinkCh
    dropped,        \* history: what the non-blocking offer dropped, and where
                    \* uplink Run was at that moment
    printed,        \* history: what printer.Run printed
    posted,         \* history: the messages uplink Run POSTed
    lastStatus,     \* history: the status of the latest response to a POST (0: none)
    closedWith,     \* history: what the unified channel held at close(messages)
    sent,           \* history: what the source adapters sent on the unified
                    \* channel, in the order of the sends
    \* ---- isBridgeEcho applied to one input
    echoIn,
    echoOut,
    \* ---- one call of a function of the uplink client or of matchesSubscription
    callIn,         \* the function called and its argument
    callOut,        \* what it returned, NoValue before the call
    \* ---- youtube.Client.Connect
    pollPc,         \* where Connect is: "resolve","fetch","send","wait","returned"
    liveChatID,     \* c.liveChatID
    pageToken,      \* c.pageToken
    pollingRate,    \* c.pollingRate, in milliseconds
    tickerPeriod,   \* the period the ticker was created with (0: no ticker yet)
    fetches,        \* how many times fetchMessages has run
    items,          \* the items of the current response still to be sent
    videoResp,      \* history: what the metadata request ended with
    requests,       \* history: the requests issued, in order
    pollEmitted,    \* history: the Messages sent on the unified channel
    pollLogged,     \* history: the fetch errors printed
    pollResult,     \* Connect's return value, NoValue while it runs
    chatLog,        \* history: per fetchMessages call, the page cursor of its
                    \* request and what the request ended with
    \* ---- twitch.Client.Connect
    ircPc,          \* where Connect is: "dial","select","read","send","returned"
    ircMsg,         \* the parsed message Connect is sending
    ircReads,       \* history: what each ReadString returned, in order
    ircWritten,     \* history: the lines Connect wrote to the connection
    ircEmitted,     \* history: the Messages sent on the unified channel
    ircLateReads,   \* history: how many reads ended after the cancellation
    ircRest,        \* the rest of the line whose beginning a timed-out read took
                    \* out of the reader
    ircResult       \* Connect's return value, NoValue while it runs

socketVars == <<connPc, loopPc, firstFrame, framesRead, pending, readErr,
                connectResult, outbound, emitted, connClosed, firstEvent>>
dispVars == <<bridge, srcOpen, messagesClosed, dispPc, dispMsg, printerCh,
              printerClosed, uplinkCh, uplinkClosed, printerPc, upPc, upMsg,
              received, displayed, bridged, dropped, printed, posted,
              lastStatus, closedWith, sent>>
echoVars == <<echoIn, echoOut>>
callVars == <<callIn, callOut>>
pollVars == <<pollPc, liveChatID, pageToken, pollingRate, tickerPeriod, fetches,
              items, videoResp, requests, pollEmitted, pollLogged, pollResult,
              chatLog>>
ircVars == <<ircPc, ircMsg, ircReads, ircWritten, ircEmitted, ircLateReads,
             ircRest, ircResult>>
vars == <<messages, ctxDone, socketVars, dispVars, echoVars, callVars, pollVars,
          ircVars>>

NoValue == [kind |-> "none"]

(***************************************************************************)
(* Bounds of the model.                                                    *)
(***************************************************************************)
\* frames readLoop decodes in one run
MaxFrames == 3
\* buffer of each of the three channels of main.go (100 there)
ChanCap == 1
\* messages the source adapters send in one run of the dispatcher
MaxMsgs == 3
\* longest username and alias given to isBridgeEcho
MaxNameLen == 2
\* runs of fetchMessages in one run of the polling adapter
MaxFetches == 3

(***************************************************************************)
(* message.Platform and message.Message                                    *)
(***************************************************************************)
Twitch == "Twitch"
YouTube == "YouTube"
HackrTV == "HackrTV"
Platforms == {Twitch, YouTube, HackrTV}

Message(platform, username, timestamp, content) ==
    [Platform |-> platform, Username |-> username,
     Timestamp |-> timestamp, Content |-> content]


(***************************************************************************)
(* Socket adapter: wire data                                               *)
(***************************************************************************)
\* c.channel, the configured chat-channel slug
OwnSlug == "main"

\* A raw identifier string: a JSON text, given by whether it parses and by
\* its members in the order they are written.
RawId(members) == [wellFormed |-> TRUE, members |-> members]
IdOwn == RawId(<<<<"channel", "LiveChatChannel">>, <<"chat_channel", "main">>>>)
IdOwnSwapped == RawId(<<<<"chat_channel", "main">>, <<"channel", "LiveChatChannel">>>>)
IdOtherSlug == RawId(<<<<"channel", "LiveChatChannel">>, <<"chat_channel", "other">>>>)
\* the empty string (an absent identifier): json.Unmarshal fails on it
IdAbsent == [wellFormed |-> FALSE, members |-> <<>>]

\* the keys of the model's identifiers that differ from a field's key in
\* letter case only, with that key
FoldKey(key) ==
    IF key \in {"Channel", "CHANNEL"} THEN "channel"
    ELSE IF key \in {"Chat_Channel", "CHAT_CHANNEL"} THEN "chat_channel"
    ELSE key

\* json.Unmarshal into channelIdentifier: each member sets its field (keys
\* match whatever their letter case), a later member with the same key
\* overwrites, unknown keys are ignored.
RECURSIVE FieldOf(_, _)
FieldOf(members, key) ==
    IF members = <<>> THEN ""
    ELSE LET last == members[Len(members)]
         IN IF FoldKey(last[1]) = key THEN last[2]
            ELSE FieldOf(SubSeq(members, 1, Len(members) - 1), key)

decodeIdentifier(raw) ==
    [ok |-> raw.wellFormed,
     Channel |-> FieldOf(raw.members, "channel"),
     ChatChannel |-> FieldOf(raw.members, "chat_channel")]

\* a variant comparing the raw text with the one subscribe() marshalled
matchesSubscriptionRawCompare(rawIdentifier) == rawIdentifier = IdOwn

\* a variant that forgets to compare the chat-channel slug
matchesSubscriptionAnySlug(rawIdentifier) ==
    LET id == decodeIdentifier(rawIdentifier)
    IN id.ok /\ id.Channel = "LiveChatChannel"

matchesSubscription(rawIdentifier) ==
    LET id == decodeIdentifier(rawIdentifier)
    IN id.ok /\ id.Channel = "LiveChatChannel" /\ id.ChatChannel = OwnSlug

\* packets (created_at is "rfc3339" when time.Parse accepts it)
Packet(id, content, createdAt, isDropped, alias) ==
    [id |-> id, content |-> content, created_at |-> createdAt,
     dropped |-> isDropped, hackr_alias |-> alias]
P1 == Packet(1, <<"o", "d">>, "rfc3339", TRUE, <<"s", "o">>)
P2 == Packet(2, <<"o", "m">>, "rfc3339", FALSE, <<"h", "1">>)
P3 == Packet(3, <<"l", "m">>, "garbled", FALSE, <<"h", "2">>)
P4 == Packet(4, <<"d", "l">>, "rfc3339", TRUE, <<"h", "3">>)
Packets == {P1, P2, P3, P4}

\* raw.Message: absent (nil), or a JSON text given by what decoding finds:
\* whether it is an object, its "type", whether its body decodes into the
\* typed struct, and the packets it holds.
NoPayload == [present |-> FALSE]
Payload(isObject, type, bodyOk, packets) ==
    [present |-> TRUE, object |-> isObject, type |-> type,
     bodyOk |-> bodyOk, packets |-> packets]
InitialPackets(packets) == Payload(TRUE, "initial_packets", TRUE, packets)
NewPacket(pkt) == Payload(TRUE, "new_packet", TRUE, <<pkt>>)
\* a JSON string, as the message of a disconnect frame
TextPayload == Payload(FALSE, "", FALSE, <<>>)

Frame(type, identifier, message) ==
    [type |-> type, identifier |-> identifier, message |-> message]

F_welcome == Frame("welcome", IdAbsent, NoPayload)
F_ping == Frame("ping", IdAbsent, NoPayload)
F_pingData == Frame("ping", IdOwn, NewPacket(P2))
F_confirm == Frame("confirm_subscription", IdOwn, NoPayload)
F_reject == Frame("reject_subscription", IdOwn, NoPayload)
F_rejectOther == Frame("reject_subscription", IdOtherSlug, NoPayload)
F_disconnect == Frame("disconnect", IdAbsent, TextPayload)
F_batch == Frame("", IdOwn, InitialPackets(<<P1, P2>>))
F_batchLive == Frame("", IdOwnSwapped, InitialPackets(<<P2, P3>>))
F_new == Frame("", IdOwn, NewPacket(P3))
F_newDropped == Frame("", IdOwn, NewPacket(P4))
F_foreign == Frame("", IdOtherSlug, NewPacket(P3))
F_foreignTyped == Frame("welcome", IdOtherSlug, NewPacket(P2))
\* data frames of the own subscription whose inner message does not decode:
\* a message that is no JSON object, and a new_packet whose body has a
\* member of the wrong type
F_badEnvelope == Frame("", IdOwn, TextPayload)
F_badBody == Frame("", IdOwn, Payload(TRUE, "new_packet", FALSE, <<P2>>))

\* what the peer may send once the subscribe command is out
Frames == {F_ping, F_pingData, F_confirm, F_reject, F_rejectOther,
           F_disconnect, F_batch, F_batchLive, F_new, F_newDropped,
           F_foreign, F_foreignTyped, F_badEnvelope, F_badBody}
\* what the first ReadJSON may return: a frame, or an error
ReadFailure == [kind |-> "readFailure"]
FirstReads == {F_welcome, F_disconnect, F_reject, F_new, F_ping, ReadFailure}

(***************************************************************************)
(* Socket adapter: errors                                                  *)
(***************************************************************************)
ErrDial == [kind |-> "dial"]
ErrReadWelcome == [kind |-> "readWelcome"]
ErrExpectedWelcome(type) == [kind |-> "expectedWelcome", got |-> type]
ErrWrite == [kind |-> "write"]
ErrRead == [kind |-> "read"]
\* the read error that wraps the JSON decoder's error
ErrReadSyntax == [kind |-> "read", cause |-> "json"]
ErrRejected(channel) == [kind |-> "rejected", channel |-> channel]
ErrDisconnected(message) == [kind |-> "disconnected", message |-> message]
ErrCanceled == [kind |-> "canceled"]

(***************************************************************************)
(* Socket adapter: Connect, waitForWelcome, subscribe, readLoop            *)
(***************************************************************************)
\* time.Parse(time.RFC3339, pkt.CreatedAt), with time.Now() on failure
packetToMessage(pkt) ==
    Message(HackrTV, pkt.hackr_alias,
            IF pkt.created_at = "rfc3339" THEN <<"at", pkt.id>> ELSE <<"now">>,
            pkt.content)

\* a variant that forwards moderated packets too
SkipsPacketNever(pkt) == FALSE

\* `if pkt.Dropped { continue }`, in both the batch and the single-packet path
SkipsPacket(pkt) == pkt.dropped

HandleFrameNoFatal(raw) ==
    IF raw.type \in {"ping", "confirm_subscription", "reject_subscription", "disconnect"}
    THEN [act |-> "continue"]
    ELSE IF ~matchesSubscription(raw.identifier) THEN [act |-> "continue"]
    ELSE IF ~raw.message.present \/ ~raw.message.object THEN [act |-> "continue"]
    ELSE IF raw.message.type \in {"initial_packets", "new_packet"} /\ raw.message.bodyOk
         THEN [act |-> "range", packets |-> raw.message.packets]
    ELSE [act |-> "continue"]

\* a variant whose inner switch has no case for a single live packet
HandleFrameBatchOnly(raw) ==
    IF raw.type \in {"ping", "confirm_subscription"} THEN [act |-> "continue"]
    ELSE IF raw.type = "reject_subscription"
         THEN [act |-> "return", err |-> ErrRejected(OwnSlug)]
    ELSE IF raw.type = "disconnect"
         THEN [act |-> "return", err |-> ErrDisconnected(raw.message)]
    ELSE IF ~matchesSubscription(raw.identifier) THEN [act |-> "continue"]
    ELSE IF ~raw.message.present \/ ~raw.message.object THEN [act |-> "continue"]
    ELSE IF raw.message.type = "initial_packets" /\ raw.message.bodyOk
         THEN [act |-> "range", packets |-> raw.message.packets]
    ELSE [act |-> "continue"]

\* One iteration of readLoop on a decoded frame, up to the packets it ranges
\* over: the switch on raw.Type, the subscription check, the nil check, the
\* envelope peek and the typed decode.
HandleFrame(raw) ==
    IF raw.type \in {"ping", "confirm_subscription"} THEN [act |-> "continue"]
    ELSE IF raw.type = "reject_subscription"
         THEN [act |-> "return", err |-> ErrRejected(OwnSlug)]
    ELSE IF raw.type = "disconnect"
         THEN [act |-> "return", err |-> ErrDisconnected(raw.message)]
    ELSE IF ~matchesSubscription(raw.identifier) THEN [act |-> "continue"]
    ELSE IF ~raw.message.present THEN [act |-> "continue"]
    ELSE IF ~raw.message.object THEN [act |-> "continue"]
    ELSE IF raw.message.type \in {"initial_packets", "new_packet"}
         THEN IF raw.message.bodyOk
              THEN [act |-> "range", packets |-> raw.message.packets]
              ELSE [act |-> "continue"]
    ELSE [act |-> "continue"]

\* the subscribe command and the close frame Connect writes
SubscribeCommand == [command |-> "subscribe", identifier |-> IdOwn]
CloseFrame == [command |-> "close"]

\* a variant of waitForWelcome that accepts any first frame
WelcomeOutcomeAnyType(first) ==
    IF first = ReadFailure THEN ErrReadWelcome ELSE NoValue

\* waitForWelcome's result for what its ReadJSON returned (NoValue: nil)
WelcomeOutcome(first) ==
    IF first = ReadFailure THEN ErrReadWelcome
    ELSE IF first.type # "welcome" THEN ErrExpectedWelcome(first.type)
    ELSE NoValue

\* the first of the two events Connect's select waits for
Noted(event) == IF firstEvent = "none" THEN event ELSE firstEvent

SocketInit ==
    /\ connPc = "dial"
    /\ loopPc = "idle"
    /\ firstFrame = NoValue
    /\ framesRead = <<>>
    /\ pending = <<>>
    /\ readErr = NoValue
    /\ connectResult = NoValue
    /\ outbound = <<>>
    /\ emitted = <<>>
    /\ connClosed = FALSE
    /\ firstEvent = "none"

SocketFrame == UNCHANGED <<dispVars, echoVars, callVars, pollVars, ircVars>>

\* websocket.DefaultDialer.DialContext succeeds (it fails on a cancelled context)
DialOk ==
    /\ connPc = "dial"
    /\ ~ctxDone
    /\ connPc' = "welcome"
    /\ UNCHANGED <<loopPc, firstFrame, framesRead, pending, readErr,
                   connectResult, outbound, emitted, connClosed, messages, ctxDone>>
    /\ UNCHANGED firstEvent
    /\ SocketFrame

\* DialContext fails: Connect returns before any connection exists
DialFail ==
    /\ connPc = "dial"
    /\ connPc' = "returned"
    /\ connectResult' = ErrDial
    /\ UNCHANGED <<loopPc, firstFrame, framesRead, pending, readErr,
                   outbound, emitted, connClosed, messages, ctxDone>>
    /\ UNCHANGED firstEvent
    /\ SocketFrame

\* waitForWelcome: one ReadJSON under the 10 s deadline
WaitForWelcome ==
    /\ connPc = "welcome"
    /\ \E first \in FirstReads :
        /\ firstFrame' = first
        /\ IF WelcomeOutcome(first) = NoValue
           THEN /\ connPc' = "subscribe"
                /\ UNCHANGED <<connectResult, connClosed>>
           ELSE /\ connPc' = "returned"
                /\ connectResult' = WelcomeOutcome(first)
                /\ connClosed' = TRUE
    /\ UNCHANGED <<loopPc, framesRead, pending, readErr, outbound, emitted,
                   messages, ctxDone>>
    /\ UNCHANGED firstEvent
    /\ SocketFrame

\* subscribe writes the command; Connect then starts the readLoop goroutine
SubscribeOk ==
    /\ connPc = "subscribe"
    /\ outbound' = Append(outbound, SubscribeCommand)
    /\ connPc' = "select"
    /\ loopPc' = "read"
    /\ UNCHANGED <<firstFrame, framesRead, pending, readErr, connectResult,
                   emitted, connClosed, messages, ctxDone>>
    /\ UNCHANGED firstEvent
    /\ SocketFrame

\* conn.WriteJSON fails: Connect returns the write error
SubscribeFail ==
    /\ connPc = "subscribe"
    /\ connPc' = "returned"
    /\ connectResult' = ErrWrite
    /\ connClosed' = TRUE
    /\ UNCHANGED <<loopPc, firstFrame, framesRead, pending, readErr, outbound,
                   emitted, messages, ctxDone>>
    /\ UNCHANGED firstEvent
    /\ SocketFrame

\* readLoop: ReadJSON decodes a frame; the iteration runs up to its first send.
\* (After conn.Close() a frame already buffered by the connection's reader can
\* still be returned.)
ReadFrame ==
    /\ loopPc = "read"
    /\ Len(framesRead) < MaxFrames
    /\ \E raw \in Frames :
        /\ framesRead' = Append(framesRead, raw)
        /\ LET h == HandleFrame(raw)
           IN IF h.act = "return"
              THEN /\ loopPc' = "done"
                   /\ readErr' = h.err
                   /\ pending' = <<>>
                   /\ firstEvent' = Noted("loop")
              ELSE IF h.act = "range" /\ h.packets # <<>>
              THEN /\ loopPc' = "send"
                   /\ pending' = h.packets
                   /\ UNCHANGED <<readErr, firstEvent>>
              ELSE /\ UNCHANGED <<loopPc, readErr, pending, firstEvent>>
    /\ UNCHANGED <<connPc, firstFrame, connectResult, outbound, emitted,
                   connClosed, messages, ctxDone>>
    /\ SocketFrame

\* readLoop: ReadJSON returns an error (closed connection, close frame,
\* network error, a frame that is not JSON); readLoop returns it
ReadError ==
    /\ loopPc = "read"
    /\ loopPc' = "done"
    /\ readErr' = ErrRead
    /\ firstEvent' = Noted("loop")
    /\ UNCHANGED <<connPc, firstFrame, framesRead, pending, connectResult,
                   outbound, emitted, connClosed, messages, ctxDone>>
    /\ SocketFrame

\* readLoop: the peer sends a frame that is not valid JSON: ReadJSON returns
\* the decoder's error and readLoop returns it
ReadMalformed ==
    /\ loopPc = "read"
    /\ loopPc' = "done"
    /\ readErr' = ErrReadSyntax
    /\ firstEvent' = Noted("loop")
    /\ UNCHANGED <<connPc, firstFrame, framesRead, pending, connectResult,
                   outbound, emitted, connClosed, messages, ctxDone>>
    /\ SocketFrame

\* readLoop: one iteration over the frame's packets: a dropped packet is
\* skipped, any other is converted and sent (the send blocks while the
\* channel's buffer is full)
RangePacket ==
    /\ loopPc = "send"
    /\ LET pkt == Head(pending)
       IN IF SkipsPacket(pkt)
          THEN UNCHANGED <<messages, emitted>>
          ELSE /\ ~messagesClosed
               /\ Len(messages) < ChanCap
               /\ messages' = Append(messages, packetToMessage(pkt))
               /\ emitted' = Append(emitted, packetToMessage(pkt))
    /\ pending' = Tail(pending)
    /\ loopPc' = IF Tail(pending) = <<>> THEN "read" ELSE "send"
    /\ UNCHANGED <<connPc, firstFrame, framesRead, readErr, connectResult,
                   outbound, connClosed, ctxDone>>
    /\ UNCHANGED firstEvent
    /\ SocketFrame

\* the interrupt handler of main calls cancel()
SocketCancel ==
    /\ ~ctxDone
    /\ connPc # "returned"
    /\ ctxDone' = TRUE
    /\ firstEvent' = Noted("signal")
    /\ UNCHANGED <<connPc, loopPc, firstFrame, framesRead, pending, readErr,
                   connectResult, outbound, emitted, connClosed, messages>>
    /\ SocketFrame

\* Connect's select takes <-ctx.Done(): close frame, return ctx.Err()
SelectCanceled ==
    /\ connPc = "select"
    /\ ctxDone
    /\ outbound' = Append(outbound, CloseFrame)
    /\ connectResult' = ErrCanceled
    /\ connPc' = "returned"
    /\ connClosed' = TRUE
    /\ UNCHANGED <<loopPc, firstFrame, framesRead, pending, readErr, emitted,
                   messages, ctxDone>>
    /\ UNCHANGED firstEvent
    /\ SocketFrame

\* a variant of the select in which a fired signal always wins
SelectReadErrUnlessCanceled ==
    /\ connPc = "select"
    /\ ~ctxDone
    /\ readErr # NoValue
    /\ connectResult' = readErr
    /\ readErr' = NoValue
    /\ connPc' = "returned"
    /\ connClosed' = TRUE
    /\ UNCHANGED <<loopPc, firstFrame, framesRead, pending, outbound, emitted,
                   messages, ctxDone>>
    /\ UNCHANGED firstEvent
    /\ SocketFrame

\* Connect's select takes the read loop's error and returns it
SelectReadErr ==
    /\ connPc = "select"
    /\ readErr # NoValue
    /\ connectResult' = readErr
    /\ readErr' = NoValue
    /\ connPc' = "returned"
    /\ connClosed' = TRUE
    /\ UNCHANGED <<loopPc, firstFrame, framesRead, pending, outbound, emitted,
                   messages, ctxDone>>
    /\ UNCHANGED firstEvent
    /\ SocketFrame

\* the dispatcher takes the oldest message off the unified channel
SocketDrain ==
    /\ connPc # "exited"
    /\ messages # <<>>
    /\ messages' = Tail(messages)
    /\ UNCHANGED <<socketVars, ctxDone>>
    /\ SocketFrame

\* what main's steps leave alone
MainFrame ==
    UNCHANGED <<bridge, srcOpen, dispPc, dispMsg, printerCh, printerClosed,
                uplinkCh, uplinkClosed, printerPc, upPc, upMsg, received,
                displayed, bridged, dropped, printed, posted, lastStatus,
                closedWith, sent, echoVars, callVars, pollVars, ircVars>>

\* main, with the socket adapter the last to return: wg.Wait() is over when
\* Connect has returned (the goroutine's deferred wg.Done()); close(messages)
MainClose ==
    /\ connPc = "returned"
    /\ ~messagesClosed
    /\ messagesClosed' = TRUE
    /\ UNCHANGED <<socketVars, messages, ctxDone>>
    /\ MainFrame

\* readLoop: `messages <- packetToMessage(pkt)` on the closed channel (the
\* send about to start, or the send blocked on the full buffer when the
\* channel was closed): the goroutine panics
SendOnClosed ==
    /\ loopPc = "send"
    /\ ~SkipsPacket(Head(pending))
    /\ messagesClosed
    /\ loopPc' = "panic"
    /\ UNCHANGED <<connPc, firstFrame, framesRead, pending, readErr,
                   connectResult, outbound, emitted, connClosed, firstEvent,
                   messages, ctxDone, messagesClosed>>
    /\ MainFrame

\* main returns after close(messages): the process ends and with it every
\* goroutine still running
MainReturn ==
    /\ connPc = "returned"
    /\ messagesClosed
    /\ loopPc # "panic"
    /\ connPc' = "exited"
    /\ loopPc' = IF loopPc \in {"read", "send"} THEN "killed" ELSE loopPc
    /\ UNCHANGED <<firstFrame, framesRead, pending, readErr, connectResult,
                   outbound, emitted, connClosed, firstEvent, messages,
                   ctxDone, messagesClosed>>
    /\ MainFrame

(***************************************************************************)
(* isBridgeEcho (main.go) with strings.EqualFold and strings.HasPrefix     *)
(***************************************************************************)
\* the characters of the model's strings, all ASCII, with their byte values
CharCode ==
    ("X" :> 88) @@ ("x" :> 120) @@ ("R" :> 82) @@ ("r" :> 114) @@
    ("T" :> 84) @@ ("t" :> 116) @@ ("V" :> 86) @@ ("Y" :> 89) @@
    ("[" :> 91) @@ ("{" :> 123) @@ ("]" :> 93) @@ ("_" :> 95) @@
    (" " :> 32) @@ ("h" :> 104) @@ ("i" :> 105) @@ (":" :> 58)

FoldsTo(sr, tr) ==
    LET lo == IF CharCode[tr] < CharCode[sr] THEN CharCode[tr] ELSE CharCode[sr]
        hi == IF CharCode[tr] < CharCode[sr] THEN CharCode[sr] ELSE CharCode[tr]
    IN sr = tr \/ (65 <= lo /\ lo <= 90 /\ hi = lo + 32)

EqualFold(s, t) ==
    LET n == IF Len(s) < Len(t) THEN Len(s) ELSE Len(t)
    IN /\ \A i \in 1..n : FoldsTo(s[i], t[i])
       /\ Len(s) = Len(t)

\* a variant matching the tag without the space that follows it
HasPrefixButLast(s, prefix) ==
    /\ Len(s) >= Len(prefix) - 1
    /\ SubSeq(s, 1, Len(prefix) - 1) = SubSeq(prefix, 1, Len(prefix) - 1)

\* strings.HasPrefix
HasPrefix(s, prefix) ==
    Len(s) >= Len(prefix) /\ SubSeq(s, 1, Len(prefix)) = prefix

\* a variant whose YouTube tag has two letters
PlatformStringTwoLetters(p) ==
    IF p = Twitch THEN <<"T", "T", "V">>
    ELSE IF p = YouTube THEN <<"Y", "T">>
    ELSE IF p = HackrTV THEN <<"H", "T", "V">>
    ELSE <<"?", "?", "?">>

\* Platform.String()
PlatformString(p) ==
    IF p = Twitch THEN <<"T", "T", "V">>
    ELSE IF p = YouTube THEN <<"Y", "T", "_">>
    ELSE IF p = HackrTV THEN <<"H", "T", "V">>
    ELSE <<"?", "?", "?">>

\* the literals "[TTV] " and "[YT_] "
TagTTV == <<"[", "T", "T", "V", "]", " ">>
TagYT == <<"[", "Y", "T", "_", "]", " ">>

isBridgeEcho(msg, relayAlias) ==
    /\ msg.Platform = HackrTV
    /\ EqualFold(msg.Username, relayAlias)
    /\ (HasPrefix(msg.Content, TagTTV) \/ HasPrefix(msg.Content, TagYT))

(***************************************************************************)
(* main: the fan-out dispatcher, printer.Run and uplink Client.Run         *)
(***************************************************************************)
\* cfg.HackrTV.Alias
RelayAlias == <<"X", "r">>

\* what the source adapters may send
\* a Twitch user named like the relay alias who types a bridge tag
M_ttvTagged == Message(Twitch, <<"X", "r">>, <<"now">>, TagTTV \o <<"h", "i">>)
M_yt == Message(YouTube, <<"h", "i">>, <<"now">>, <<"h", "i">>)
\* a hackr.tv user other than the relay alias who types a bridge tag
M_htv == Message(HackrTV, <<"r", "X">>, <<"now">>, TagYT \o <<"h", "i">>)
\* the relay's own bridged message coming back, the alias in another case
M_echoTTV == Message(HackrTV, <<"x", "R">>, <<"now">>, TagTTV \o <<"x", ":", " ", "h", "i">>)
SourceMessages == {M_ttvTagged, M_yt, M_htv, M_echoTTV}

Sources == {"twitch", "youtube", "hackrtv"}
SourcePlatform(src) ==
    IF src = "twitch" THEN Twitch ELSE IF src = "youtube" THEN YouTube ELSE HackrTV

\* the statuses the Uplink API answers a POST with
Responses == {201, 429, 422}

\* fmt's %d: the decimal digits of a non-negative number
Digit(d) == <<"0", "1", "2", "3", "4", "5", "6", "7", "8", "9">>[d + 1]
RECURSIVE Decimal(_)
Decimal(n) ==
    IF n < 10 THEN <<Digit(n)>> ELSE Decimal(n \div 10) \o <<Digit(n % 10)>>

\* the errors of Send
ErrRateLimit == [kind |-> "error", text |-> <<"uplink: rate limited">>]
ErrUnexpectedStatus(status) ==
    [kind |-> "error", text |-> <<"uplink: unexpected status ">> \o Decimal(status)]
ErrContext == [kind |-> "error", text |-> <<"context canceled">>]
Nil == [kind |-> "nil"]

\* a variant of Send that takes every 2xx status for success
SendResultAny2xx(status) ==
    IF status \div 100 = 2 THEN Nil
    ELSE IF status = 429 THEN ErrRateLimit
    ELSE ErrUnexpectedStatus(status)

\* Send, once the response is there: the switch on resp.StatusCode
SendResult(status) ==
    IF status = 201 THEN Nil
    ELSE IF status = 429 THEN ErrRateLimit
    ELSE ErrUnexpectedStatus(status)

\* a variant of Run that gives up on an error other than the rate limit
AfterSendFatalOnError(err, canceled) ==
    IF err = Nil THEN "wait"
    ELSE IF err = ErrRateLimit THEN "cooldown"
    ELSE "done"

\* Run, after Send returned err: where it goes on
AfterSend(err, canceled) ==
    IF err = Nil THEN "wait"
    ELSE IF err = ErrRateLimit THEN "cooldown"
    ELSE IF canceled THEN "done"
    ELSE "wait"

DispInit ==
    /\ bridge \in BOOLEAN
    /\ srcOpen = Sources
    /\ messagesClosed = FALSE
    /\ dispPc = "recv"
    /\ dispMsg = NoValue
    /\ printerCh = <<>>
    /\ printerClosed = FALSE
    /\ uplinkCh = <<>>
    /\ uplinkClosed = FALSE
    /\ printerPc = "run"
    /\ upPc = IF bridge THEN "wait" ELSE "off"
    /\ upMsg = NoValue
    /\ received = <<>>
    /\ displayed = <<>>
    /\ bridged = <<>>
    /\ dropped = <<>>
    /\ printed = <<>>
    /\ posted = <<>>
    /\ lastStatus = 0
    /\ closedWith = <<>>
    /\ sent = <<>>

DispFrame == UNCHANGED <<socketVars, echoVars, callVars, pollVars, ircVars>>

\* the source adapter src sends a message on the unified channel (blocking
\* while the buffer is full)
SourceSendBy(src) ==
    /\ src \in srcOpen
    /\ Len(received) + Len(messages) < MaxMsgs
    /\ Len(messages) < ChanCap
    /\ \E m \in SourceMessages :
        /\ m.Platform = SourcePlatform(src)
        /\ messages' = Append(messages, m)
        /\ sent' = Append(sent, m)
    /\ UNCHANGED <<ctxDone, bridge, srcOpen, messagesClosed, dispPc, dispMsg,
                   printerCh, printerClosed, uplinkCh, uplinkClosed, printerPc,
                   upPc, upMsg, received, displayed, bridged, dropped, printed,
                   posted, lastStatus, closedWith>>
    /\ DispFrame

\* a variant in which an adapter that finds the buffer full discards its
\* message
SourceSendLossy ==
    /\ Len(received) + Len(messages) < MaxMsgs
    /\ \E src \in srcOpen : \E m \in SourceMessages :
        /\ m.Platform = SourcePlatform(src)
        /\ messages' = IF Len(messages) < ChanCap
                       THEN Append(messages, m)
                       ELSE messages
        /\ sent' = Append(sent, m)
    /\ UNCHANGED <<ctxDone, bridge, srcOpen, messagesClosed, dispPc, dispMsg,
                   printerCh, printerClosed, uplinkCh, uplinkClosed, printerPc,
                   upPc, upMsg, received, displayed, bridged, dropped, printed,
                   posted, lastStatus, closedWith>>
    /\ DispFrame

\* a source adapter's `messages <- msg`
SourceSend == \E src \in Sources : SourceSendBy(src)

\* a variant in which the return of one adapter ends the tasks of all
SourceReturnEndsAll ==
    /\ srcOpen # {}
    /\ srcOpen' = {}
    /\ UNCHANGED <<messages, ctxDone, bridge, lastStatus, closedWith, sent, messagesClosed, dispPc, dispMsg,
                   printerCh, printerClosed, uplinkCh, uplinkClosed, printerPc,
                   upPc, upMsg, received, displayed, bridged, dropped, printed,
                   posted>>
    /\ DispFrame

\* a source adapter's Connect returns: wg.Done()
SourceReturn ==
    /\ \E src \in srcOpen : srcOpen' = srcOpen \ {src}
    /\ UNCHANGED <<messages, ctxDone, bridge, lastStatus, closedWith, sent, messagesClosed, dispPc, dispMsg,
                   printerCh, printerClosed, uplinkCh, uplinkClosed, printerPc,
                   upPc, upMsg, received, displayed, bridged, dropped, printed,
                   posted>>
    /\ DispFrame

\* wg.Wait() is over: close(messages)
CloseMessages ==
    /\ srcOpen = {}
    /\ ~messagesClosed
    /\ messagesClosed' = TRUE
    /\ closedWith' = messages
    /\ UNCHANGED <<messages, ctxDone, bridge, lastStatus, srcOpen, dispPc, dispMsg,
                   printerCh, printerClosed, uplinkCh, uplinkClosed, printerPc,
                   upPc, upMsg, received, displayed, bridged, dropped, printed,
                   posted, sent>>
    /\ DispFrame

\* the interrupt handler calls cancel(), or main's deferred cancel() runs
\* once close(messages) is done
DispCancel ==
    /\ ~ctxDone
    /\ ctxDone' = TRUE
    /\ UNCHANGED <<messages, dispVars>>
    /\ DispFrame

\* a variant of the dispatcher that displays echoes
SuppressedNever(msg) == FALSE

\* a variant that suppresses echoes whether or not the bridge is on
SuppressedAlways(msg) == isBridgeEcho(msg, RelayAlias)

\* `uplinkCh != nil && isBridgeEcho(msg, cfg.HackrTV.Alias)`
Suppressed(msg) == bridge /\ isBridgeEcho(msg, RelayAlias)

\* a variant that offers every displayed message to the uplink
OfferedAll(msg) == bridge

\* `uplinkCh != nil && msg.Platform != message.HackrTV`
Offered(msg) == bridge /\ msg.Platform # HackrTV

\* dispatcher: `for msg := range messages`, then the echo check
DispRecv ==
    /\ dispPc = "recv"
    /\ messages # <<>>
    /\ messages' = Tail(messages)
    /\ received' = Append(received, Head(messages))
    /\ IF Suppressed(Head(messages))
       THEN UNCHANGED <<dispPc, dispMsg>>
       ELSE dispPc' = "print" /\ dispMsg' = Head(messages)
    /\ UNCHANGED <<ctxDone, bridge, lastStatus, closedWith, sent, srcOpen, messagesClosed, printerCh,
                   printerClosed, uplinkCh, uplinkClosed, printerPc, upPc, upMsg,
                   displayed, bridged, dropped, printed, posted>>
    /\ DispFrame

\* a variant that skips the display when the uplink buffer is full
PrintsWhenUplinkFull(msg) == ~(Offered(msg) /\ Len(uplinkCh) >= ChanCap)

\* the dispatcher displays every message it did not suppress
Prints(msg) == TRUE

\* dispatcher: `printerCh <- msg` (blocking while the buffer is full)
DispPrint ==
    /\ dispPc = "print"
    /\ IF Prints(dispMsg)
       THEN /\ Len(printerCh) < ChanCap
            /\ printerCh' = Append(printerCh, dispMsg)
            /\ displayed' = Append(displayed, dispMsg)
       ELSE UNCHANGED <<printerCh, displayed>>
    /\ IF Offered(dispMsg)
       THEN dispPc' = "offer" /\ UNCHANGED dispMsg
       ELSE dispPc' = "recv" /\ dispMsg' = NoValue
    /\ UNCHANGED <<messages, ctxDone, bridge, lastStatus, closedWith, sent, srcOpen, messagesClosed,
                   printerClosed, uplinkCh, uplinkClosed, printerPc, upPc, upMsg,
                   received, bridged, dropped, printed, posted>>
    /\ DispFrame

\* a variant of the dispatcher that sends to the uplink with a plain channel send
DispOfferBlocking ==
    /\ dispPc = "offer"
    /\ Len(uplinkCh) < ChanCap
    /\ uplinkCh' = Append(uplinkCh, dispMsg)
    /\ bridged' = Append(bridged, dispMsg)
    /\ dispPc' = "recv"
    /\ dispMsg' = NoValue
    /\ UNCHANGED <<messages, ctxDone, bridge, lastStatus, closedWith, sent, srcOpen,
                   messagesClosed, printerCh, printerClosed, uplinkClosed,
                   printerPc, upPc, upMsg, received, displayed, dropped, printed,
                   posted>>
    /\ DispFrame

\* dispatcher: the select with a default: send if the buffer has room, drop if not
DispOffer ==
    /\ dispPc = "offer"
    /\ IF Len(uplinkCh) < ChanCap
       THEN /\ uplinkCh' = Append(uplinkCh, dispMsg)
            /\ bridged' = Append(bridged, dispMsg)
            /\ UNCHANGED dropped
       ELSE /\ dropped' = Append(dropped, [msg |-> dispMsg, sender |-> upPc])
            /\ UNCHANGED <<uplinkCh, bridged>>
    /\ dispPc' = "recv"
    /\ dispMsg' = NoValue
    /\ UNCHANGED <<messages, ctxDone, bridge, lastStatus, closedWith, sent, srcOpen, messagesClosed, printerCh,
                   printerClosed, uplinkClosed, printerPc, upPc, upMsg, received,
                   displayed, printed, posted>>
    /\ DispFrame

\* a variant of the dispatcher that stops as soon as the channel is closed
DispCloseAtOnce ==
    /\ dispPc = "recv"
    /\ messagesClosed
    /\ dispPc' = "done"
    /\ printerClosed' = TRUE
    /\ uplinkClosed' = bridge
    /\ UNCHANGED <<messages, ctxDone, bridge, lastStatus, closedWith, sent, srcOpen,
                   messagesClosed, dispMsg, printerCh, uplinkCh, printerPc, upPc,
                   upMsg, received, displayed, bridged, dropped, printed, posted>>
    /\ DispFrame

\* dispatcher: the range ends on the closed, drained channel: close both sinks
DispClose ==
    /\ dispPc = "recv"
    /\ messages = <<>>
    /\ messagesClosed
    /\ dispPc' = "done"
    /\ printerClosed' = TRUE
    /\ uplinkClosed' = bridge
    /\ UNCHANGED <<messages, ctxDone, bridge, lastStatus, closedWith, sent, srcOpen, messagesClosed, dispMsg,
                   printerCh, uplinkCh, printerPc, upPc, upMsg, received,
                   displayed, bridged, dropped, printed, posted>>
    /\ DispFrame

\* printer.Run: `for msg := range messages { p.Print(msg) }`
PrinterPrint ==
    /\ printerPc = "run"
    /\ printerCh # <<>>
    /\ printerCh' = Tail(printerCh)
    /\ printed' = Append(printed, Head(printerCh))
    /\ UNCHANGED <<messages, ctxDone, bridge, lastStatus, closedWith, sent, srcOpen, messagesClosed, dispPc,
                   dispMsg, printerClosed, uplinkCh, uplinkClosed, printerPc,
                   upPc, upMsg, received, displayed, bridged, dropped, posted>>
    /\ DispFrame

\* printer.Run returns when its channel is closed and drained
PrinterDone ==
    /\ printerPc = "run"
    /\ printerCh = <<>>
    /\ printerClosed
    /\ printerPc' = "done"
    /\ UNCHANGED <<messages, ctxDone, bridge, lastStatus, closedWith, sent, srcOpen, messagesClosed, dispPc,
                   dispMsg, printerCh, printerClosed, uplinkCh, uplinkClosed,
                   upPc, upMsg, received, displayed, bridged, dropped, printed,
                   posted>>
    /\ DispFrame

\* uplink Run: the select takes a message off the channel
UplinkTake ==
    /\ upPc = "wait"
    /\ uplinkCh # <<>>
    /\ uplinkCh' = Tail(uplinkCh)
    /\ upMsg' = Head(uplinkCh)
    /\ upPc' = "send"
    /\ UNCHANGED <<messages, ctxDone, bridge, lastStatus, closedWith, sent, srcOpen, messagesClosed, dispPc,
                   dispMsg, printerCh, printerClosed, uplinkClosed, printerPc,
                   received, displayed, bridged, dropped, printed, posted>>
    /\ DispFrame

\* uplink Run: the select finds the channel closed and drained
UplinkClosed ==
    /\ upPc = "wait"
    /\ uplinkCh = <<>>
    /\ uplinkClosed
    /\ upPc' = "done"
    /\ UNCHANGED <<messages, ctxDone, bridge, lastStatus, closedWith, sent, srcOpen, messagesClosed, dispPc,
                   dispMsg, printerCh, printerClosed, uplinkCh, uplinkClosed,
                   printerPc, upMsg, received, displayed, bridged, dropped,
                   printed, posted>>
    /\ DispFrame

\* uplink Run: <-ctx.Done() while waiting for a message or cooling down
UplinkCanceled ==
    /\ upPc \in {"wait", "cooldown"}
    /\ ctxDone
    /\ upPc' = "done"
    /\ UNCHANGED <<messages, ctxDone, bridge, lastStatus, closedWith, sent, srcOpen, messagesClosed, dispPc,
                   dispMsg, printerCh, printerClosed, uplinkCh, uplinkClosed,
                   printerPc, upMsg, received, displayed, bridged, dropped,
                   printed, posted>>
    /\ DispFrame

\* a variant of Send that keeps the message and sends it again when the
\* answer is 429
UplinkResponseRetrying ==
    /\ upPc = "inflight"
    /\ \E status \in Responses :
        LET err == SendResult(status)
        IN /\ lastStatus' = status
           /\ IF err = ErrRateLimit
              THEN upPc' = "send" /\ UNCHANGED upMsg
              ELSE upPc' = AfterSend(err, ctxDone) /\ upMsg' = NoValue
    /\ UNCHANGED <<messages, ctxDone, bridge, closedWith, sent, srcOpen, messagesClosed, dispPc,
                   dispMsg, printerCh, printerClosed, uplinkCh, uplinkClosed,
                   printerPc, received, displayed, bridged, dropped, printed,
                   posted>>
    /\ DispFrame

\* a variant of Send whose request is not bound to the context
UplinkSendDetached ==
    /\ upPc = "send"
    /\ posted' = Append(posted, upMsg)
    /\ upPc' = "inflight"
    /\ UNCHANGED <<messages, ctxDone, bridge, lastStatus, closedWith, sent, srcOpen,
                   messagesClosed, dispPc, dispMsg, printerCh, printerClosed,
                   uplinkCh, uplinkClosed, printerPc, upMsg, received, displayed,
                   bridged, dropped, printed>>
    /\ DispFrame

\* uplink Run: Send writes the POST (the HTTP client writes nothing on a
\* context that is already cancelled)
UplinkSend ==
    /\ upPc = "send"
    /\ ~ctxDone
    /\ posted' = Append(posted, upMsg)
    /\ upPc' = "inflight"
    /\ UNCHANGED <<messages, ctxDone, bridge, lastStatus, closedWith, sent, srcOpen, messagesClosed, dispPc,
                   dispMsg, printerCh, printerClosed, uplinkCh, uplinkClosed,
                   printerPc, upMsg, received, displayed, bridged, dropped,
                   printed>>
    /\ DispFrame

\* uplink Run: the response arrives, Send returns and Run acts on its error
UplinkResponse ==
    /\ upPc = "inflight"
    /\ \E status \in Responses :
        /\ upPc' = AfterSend(SendResult(status), ctxDone)
        /\ lastStatus' = status
    /\ upMsg' = NoValue
    /\ UNCHANGED <<messages, ctxDone, bridge, closedWith, sent, srcOpen, messagesClosed, dispPc,
                   dispMsg, printerCh, printerClosed, uplinkCh, uplinkClosed,
                   printerPc, received, displayed, bridged, dropped, printed,
                   posted>>
    /\ DispFrame

\* uplink Run: the context is cancelled while the request is under way:
\* Send returns the context's error and Run returns
UplinkSendAborted ==
    /\ upPc = "inflight"
    /\ ctxDone
    /\ upMsg' = NoValue
    /\ upPc' = AfterSend(ErrContext, ctxDone)
    /\ UNCHANGED <<messages, ctxDone, bridge, lastStatus, closedWith, sent, srcOpen, messagesClosed, dispPc,
                   dispMsg, printerCh, printerClosed, uplinkCh, uplinkClosed,
                   printerPc, received, displayed, bridged, dropped, printed,
                   posted>>
    /\ DispFrame

\* uplink Run: Send fails on the cancelled context before any POST
UplinkSendCanceled ==
    /\ upPc = "send"
    /\ ctxDone
    /\ upMsg' = NoValue
    /\ upPc' = AfterSend(ErrContext, ctxDone)
    /\ UNCHANGED <<messages, ctxDone, bridge, lastStatus, closedWith, sent, srcOpen, messagesClosed, dispPc,
                   dispMsg, printerCh, printerClosed, uplinkCh, uplinkClosed,
                   printerPc, received, displayed, bridged, dropped, printed,
                   posted>>
    /\ DispFrame

\* uplink Run: time.After(2 * time.Second) fires
UplinkCooldownOver ==
    /\ upPc = "cooldown"
    /\ upPc' = "wait"
    /\ UNCHANGED <<messages, ctxDone, bridge, lastStatus, closedWith, sent, srcOpen, messagesClosed, dispPc,
                   dispMsg, printerCh, printerClosed, uplinkCh, uplinkClosed,
                   printerPc, upMsg, received, displayed, bridged, dropped,
                   printed, posted>>
    /\ DispFrame

\* main returns after close(messages): the process ends and with it the
\* dispatcher, printer.Run and uplink Run, wherever they stand
MainExit ==
    /\ messagesClosed
    /\ printerPc # "exited"
    /\ printerPc' = "exited"
    /\ dispPc' = IF dispPc = "done" THEN "done" ELSE "killed"
    /\ upPc' = IF upPc \in {"done", "off"} THEN upPc ELSE "killed"
    /\ UNCHANGED <<messages, ctxDone, bridge, srcOpen, messagesClosed, dispMsg,
                   printerCh, printerClosed, uplinkCh, uplinkClosed, upMsg,
                   received, displayed, bridged, dropped, printed, posted,
                   lastStatus, closedWith, sent>>
    /\ DispFrame

(***************************************************************************)
(* isBridgeEcho applied to one message and alias                           *)
(***************************************************************************)
NameChars == {"X", "x", "[", "{"}
RECURSIVE StringsUpTo(_, _)
StringsUpTo(chars, n) ==
    IF n = 0 THEN {<<>>}
    ELSE LET shorter == StringsUpTo(chars, n - 1)
         IN shorter \cup {Append(s, c) : s \in shorter, c \in chars}
Names == StringsUpTo(NameChars, MaxNameLen)
Contents ==
    {TagTTV \o <<"h", "i">>, TagYT \o <<"h", "i">>, TagTTV, TagYT,
     <<"[", "T", "T", "V", "]", "h", "i">>, <<"[", "T", "T", "V", "]">>,
     <<"[", "Y", "T", "_", "]", "h", "i">>,
     <<" ">> \o TagTTV, <<"[", "t", "T", "V", "]", " ", "h", "i">>,
     <<"[", "T", "T", "V", " ", "]", "h", "i">>,
     <<"h", "i">>, <<>>}

EchoInit ==
    /\ echoIn \in [msg : [Platform : Platforms, Username : Names,
                          Timestamp : {<<"now">>}, Content : Contents],
                   relayAlias : Names]
    /\ echoOut = NoValue

\* the dispatcher evaluates isBridgeEcho(msg, cfg.HackrTV.Alias)
EchoApply ==
    /\ echoOut = NoValue
    /\ echoOut' = [value |-> isBridgeEcho(echoIn.msg, echoIn.relayAlias)]
    /\ UNCHANGED <<echoIn, messages, ctxDone, socketVars, dispVars, callVars,
                   pollVars, ircVars>>

(***************************************************************************)
(* uplink: FormatContent and Send, each applied to one input. Strings are  *)
(* sequences of bytes, as Go's len and slicing see them.                   *)
(***************************************************************************)
\* the length FormatContent cuts at
MaxContent == 512

\* fmt.Sprintf("[%s] %s: %s", msg.Platform, msg.Username, msg.Content)
Sprintf(msg) ==
    <<"[">> \o PlatformString(msg.Platform) \o <<"]", " ">>
        \o msg.Username \o <<":", " ">> \o msg.Content

\* a variant that cuts one byte early
FormatContentShort(msg) ==
    LET s == Sprintf(msg)
    IN IF Len(s) >= MaxContent THEN SubSeq(s, 1, MaxContent - 1) ELSE s

FormatContent(msg) ==
    LET s == Sprintf(msg)
    IN IF Len(s) > MaxContent THEN SubSeq(s, 1, MaxContent) ELSE s

\* strings.Repeat
Repeat(c, n) == [i \in 1..n |-> c]

\* the bodies given to FormatContent: runs of "a" whose formatted length
\* lies below, at and above the cut, and one whose two-byte character
\* (bytes c3 a9) straddles it
BodyLens == {0, 1, 9, 499, 500, 501, 502, 503, 504, 505, 506, 512, 600}
Bodies ==
    {Repeat("a", n) : n \in BodyLens}
        \cup {Repeat("a", n) \o <<"c3", "a9", "z">> : n \in {499, 500, 501, 502}}
FormatNames == {<<>>, <<"u">>, <<"u", "s", "e", "r">>}
\* a Platform value outside the three constants prints as "???"
FormatPlatforms == Platforms \cup {"Platform(7)"}
FormatCalls ==
    {[fn |-> "FormatContent",
      arg |-> Message(pf, name, <<"now">>, body)] :
        pf \in FormatPlatforms, name \in FormatNames, body \in Bodies}

\* what c.http.Do ends with: a response with a status, or an error
Statuses == {100, 200, 201, 202, 204, 301, 400, 401, 404, 422, 429, 500, 503}
ErrTransport == [kind |-> "error", text |-> <<"connection refused">>]
SendCalls ==
    {[fn |-> "Send", arg |-> [responded |-> TRUE, status |-> st]] : st \in Statuses}
        \cup {[fn |-> "Send", arg |-> [responded |-> FALSE, status |-> 0]]}

\* Send, by what the HTTP exchange ended with
Send(outcome) ==
    IF ~outcome.responded THEN ErrTransport ELSE SendResult(outcome.status)

ApplyFormatContent ==
    /\ callIn.fn = "FormatContent"
    /\ callOut = NoValue
    /\ callOut' = [value |-> FormatContent(callIn.arg)]
    /\ UNCHANGED <<callIn, messages, ctxDone, socketVars, dispVars, echoVars,
                   pollVars, ircVars>>

ApplySend ==
    /\ callIn.fn = "Send"
    /\ callOut = NoValue
    /\ callOut' = [value |-> Send(callIn.arg)]
    /\ UNCHANGED <<callIn, messages, ctxDone, socketVars, dispVars, echoVars,
                   pollVars, ircVars>>

(***************************************************************************)
(* uplink: NewClient and deriveBaseURL with url.Parse and URL.String. A    *)
(* URL text is a sequence of tokens: names, numbers and the separators     *)
(* ":", "//", "/", "?" and "#". The texts carry no userinfo and no escapes. *)
(***************************************************************************)
\* strings.Index, strings.Count and strings.Cut on tokens
IndexOf(seq, tok) ==
    IF \E i \in 1..Len(seq) : seq[i] = tok
    THEN CHOOSE i \in 1..Len(seq) :
            seq[i] = tok /\ \A j \in 1..(i - 1) : seq[j] # tok
    ELSE 0
Count(seq, tok) == Cardinality({i \in 1..Len(seq) : seq[i] = tok})
Cut(seq, tok) ==
    LET i == IndexOf(seq, tok)
    IN IF i = 0
       THEN [before |-> seq, after |-> <<>>]
       ELSE [before |-> SubSeq(seq, 1, i - 1),
             after |-> SubSeq(seq, i + 1, Len(seq))]

\* the tokens getScheme accepts before a colon: letters, digits, "+", "-"
\* and "." after a first letter
SchemeLike == {"ws", "wss", "WSS", "http", "https", "localhost", "hackr.tv"}
\* strings.ToLower
ToLower(tok) == IF tok = "WSS" THEN "wss" ELSE tok
\* the tokens validOptionalPort accepts after the colon
PortLike == {"3000", "8080"}

NoURL == [ok |-> FALSE]
URL(scheme, opaque, host, path, forceQuery, rawQuery, fragment) ==
    [ok |-> TRUE, Scheme |-> scheme, Opaque |-> opaque, Host |-> host,
     Path |-> path, ForceQuery |-> forceQuery, RawQuery |-> rawQuery,
     Fragment |-> fragment]

\* getScheme: the scheme and what follows its colon
getScheme(u) ==
    IF u # <<>> /\ u[1] = ":"
    THEN [ok |-> FALSE, scheme |-> "", rest |-> <<>>]
    ELSE IF Len(u) >= 2 /\ u[1] \in SchemeLike /\ u[2] = ":"
    THEN [ok |-> TRUE, scheme |-> u[1], rest |-> SubSeq(u, 3, Len(u))]
    ELSE [ok |-> TRUE, scheme |-> "", rest |-> u]

\* parseAuthority without userinfo: host, or host ":" and an optional port
ValidAuthority(authority) ==
    LET i == IndexOf(authority, ":")
    IN \/ i = 0
       \/ i = Len(authority)
       \/ i = Len(authority) - 1 /\ authority[Len(authority)] \in PortLike

\* url.Parse
urlParse(text) ==
    LET c == Cut(text, "#")
        g == getScheme(c.before)
        scheme == ToLower(g.scheme)
        force == /\ g.rest # <<>>
                 /\ g.rest[Len(g.rest)] = "?"
                 /\ Count(g.rest, "?") = 1
        q == Cut(g.rest, "?")
        rest == IF force THEN SubSeq(g.rest, 1, Len(g.rest) - 1) ELSE q.before
        rawQuery == IF force THEN <<>> ELSE q.after
        rooted == rest # <<>> /\ rest[1] \in {"/", "//"}
        firstSegment == Cut(rest, "/").before
        a == SubSeq(rest, 2, Len(rest))
        i == IndexOf(a, "/")
        authority == IF i = 0 THEN a ELSE SubSeq(a, 1, i - 1)
        path == IF i = 0 THEN <<>> ELSE SubSeq(a, i, Len(a))
    IN IF ~g.ok THEN NoURL
       ELSE IF ~rooted /\ scheme # ""
       THEN URL(scheme, rest, <<>>, <<>>, force, rawQuery, c.after)
       ELSE IF ~rooted /\ IndexOf(firstSegment, ":") # 0 THEN NoURL
       ELSE IF rooted /\ rest[1] = "//"
       THEN IF ValidAuthority(authority)
            THEN URL(scheme, <<>>, authority, path, force, rawQuery, c.after)
            ELSE NoURL
       ELSE URL(scheme, <<>>, <<>>, rest, force, rawQuery, c.after)

\* URL.String
String(u) ==
    (IF u.Scheme # "" THEN <<u.Scheme, ":">> ELSE <<>>)
    \o (IF u.Opaque # <<>>
        THEN u.Opaque
        ELSE (IF (u.Scheme # "" \/ u.Host # <<>>) /\ (u.Host # <<>> \/ u.Path # <<>>)
              THEN <<"//">> ELSE <<>>)
             \o u.Host \o u.Path)
    \o (IF u.ForceQuery \/ u.RawQuery # <<>> THEN <<"?">> \o u.RawQuery ELSE <<>>)
    \o (IF u.Fragment # <<>> THEN <<"#">> \o u.Fragment ELSE <<>>)

deriveBaseURL(wsURL) ==
    LET u == urlParse(wsURL)
        cleared(scheme) ==
            [u EXCEPT !.Scheme = scheme, !.Path = <<>>, !.RawQuery = <<>>,
                      !.Fragment = <<>>]
    IN IF ~u.ok THEN [ok |-> FALSE, err |-> "invalid WebSocket URL"]
       ELSE IF u.Scheme = "ws" THEN [ok |-> TRUE, base |-> String(cleared("http"))]
       ELSE IF u.Scheme = "wss" THEN [ok |-> TRUE, base |-> String(cleared("https"))]
       ELSE [ok |-> FALSE, err |-> "unexpected scheme"]

NewClient(wsURL, token, alias, channel) ==
    LET d == deriveBaseURL(wsURL)
    IN IF ~d.ok
       THEN [client |-> NoValue, err |-> [kind |-> "error", text |-> <<"uplink: ", d.err>>]]
       ELSE [client |-> [baseURL |-> d.base, token |-> <<alias, ":", token>>,
                         channel |-> channel],
             err |-> Nil]

\* the URLs given to NewClient: scheme://host[:port][/cable][?query][#fragment],
\* the query absent, empty or "t=1"
URLParts ==
    [scheme : {"ws", "wss", "WSS", "http", "https"},
     host : {"localhost", "hackr.tv", "127.0.0.1"},
     port : {"", "3000"},
     path : {<<>>, <<"/", "cable">>},
     query : {"none", "empty", "t=1"},
     fragment : {"none", "f"}]
RenderURL(p) ==
    <<p.scheme, ":", "//", p.host>>
    \o (IF p.port = "" THEN <<>> ELSE <<":", p.port>>)
    \o p.path
    \o (IF p.query = "none" THEN <<>>
        ELSE IF p.query = "empty" THEN <<"?">> ELSE <<"?", p.query>>)
    \o (IF p.fragment = "none" THEN <<>> ELSE <<"#", p.fragment>>)
NoParts ==
    [scheme |-> "", host |-> "", port |-> "", path |-> <<>>, query |-> "none",
     fragment |-> "none"]
\* other texts: "://bad", the empty string, no scheme, a host taken for a
\* scheme, a port that is no number, and ws without "//"
OtherURLs ==
    {<<":", "//", "bad">>, <<>>, <<"hackr.tv", "/", "cable">>,
     <<"127.0.0.1", ":", "8080", "/", "cable">>,
     <<"hackr.tv", ":", "3000", "/", "cable">>,
     <<"ws", ":", "//", "hackr.tv", ":", "abc", "/", "cable">>}
OpaqueURLs == {<<"ws", ":", "hackr.tv", "/", "cable">>, <<"wss", ":", "/", "cable">>}
NewClientCalls ==
    {[fn |-> "NewClient", arg |-> [form |-> "url", parts |-> p, wsURL |-> RenderURL(p)]] :
        p \in URLParts}
    \cup {[fn |-> "NewClient", arg |-> [form |-> "other", parts |-> NoParts, wsURL |-> t]] :
        t \in OtherURLs}
    \cup {[fn |-> "NewClient", arg |-> [form |-> "rootless", parts |-> NoParts, wsURL |-> t]] :
        t \in OpaqueURLs}

\* main: uplink.NewClient(cfg.HackrTV.URL, cfg.HackrTV.Token, cfg.HackrTV.Alias,
\* cfg.HackrTV.Channel)
ApplyNewClient ==
    /\ callIn.fn = "NewClient"
    /\ callOut = NoValue
    /\ callOut' = [value |-> NewClient(callIn.arg.wsURL, "secret", "Xr", OwnSlug)]
    /\ UNCHANGED <<callIn, messages, ctxDone, socketVars, dispVars, echoVars,
                   pollVars, ircVars>>

(***************************************************************************)
(* matchesSubscription applied to the text of an identifier. The text is a *)
(* sequence of JSON tokens; json.Unmarshal checks the whole text, then     *)
(* fills the struct.                                                       *)
(***************************************************************************)
Pn(c) == [t |-> "punct", v |-> c]
Str(v) == [t |-> "string", v |-> v]
Num(v) == [t |-> "number", v |-> v]
Null == [t |-> "null", v |-> "null"]
Space == [t |-> "space", v |-> " "]
\* a character that begins no JSON value
Junk == [t |-> "junk", v |-> "n"]

IsSpace(k) == k.t = "space"
IsValue(k) == k.t \in {"string", "number", "null"}
SkipSpace(text) == SelectSeq(text, LAMBDA k : ~IsSpace(k))

\* the members of an object, from the token after "{" or after a ",":
\* string ":" value, then "," or "}"; FALSE when the text breaks off or a
\* token is out of place
RECURSIVE ScanMembers(_, _)
ScanMembers(toks, acc) ==
    IF Len(toks) < 4 THEN [ok |-> FALSE, members |-> acc, rest |-> <<>>]
    ELSE IF toks[1].t = "string" /\ toks[2] = Pn(":") /\ IsValue(toks[3])
    THEN LET member == <<toks[1].v, toks[3]>>
         IN IF toks[4] = Pn("}")
            THEN [ok |-> TRUE, members |-> Append(acc, member),
                  rest |-> SubSeq(toks, 5, Len(toks))]
            ELSE IF toks[4] = Pn(",")
            THEN ScanMembers(SubSeq(toks, 5, Len(toks)), Append(acc, member))
            ELSE [ok |-> FALSE, members |-> acc, rest |-> <<>>]
    ELSE [ok |-> FALSE, members |-> acc, rest |-> <<>>]

\* the scanner: the text is one JSON value and nothing else
ScanText(text) ==
    LET toks == SkipSpace(text)
    IN IF toks = <<>> THEN [ok |-> FALSE, object |-> FALSE, members |-> <<>>]
       ELSE IF IsValue(toks[1])
       THEN [ok |-> Len(toks) = 1, object |-> FALSE, members |-> <<>>]
       ELSE IF toks[1] = Pn("{")
       THEN IF Len(toks) >= 2 /\ toks[2] = Pn("}")
            THEN [ok |-> Len(toks) = 2, object |-> TRUE, members |-> <<>>]
            ELSE LET m == ScanMembers(SubSeq(toks, 2, Len(toks)), <<>>)
                 IN [ok |-> m.ok /\ m.rest = <<>>, object |-> TRUE,
                     members |-> m.members]
       ELSE [ok |-> FALSE, object |-> FALSE, members |-> <<>>]

KnownKey(key) == FoldKey(key) \in {"channel", "chat_channel"}

\* json.Unmarshal([]byte(rawIdentifier), &id), up to the assignment of the
\* fields: an error for a text that is no JSON, for a string or number in
\* place of the object, and for a number where a field wants a string; null
\* leaves the struct or the field as it is
identifierOf(text) ==
    LET sc == ScanText(text)
        isNull == SkipSpace(text) = <<Null>>
        mistyped == \E i \in 1..Len(sc.members) :
                        KnownKey(sc.members[i][1]) /\ sc.members[i][2].t = "number"
        strings == SelectSeq(sc.members, LAMBDA m : m[2].t = "string")
    IN [wellFormed |-> sc.ok /\ (sc.object \/ isNull) /\ ~mistyped,
        members |-> [i \in 1..Len(strings) |-> <<strings[i][1], strings[i][2].v>>]]

\* the identifier texts: an object with the two members in either order,
\* with or without spaces around every token, with or without a third
\* member, the keys in either letter case; and the same text spoiled
IdShapes ==
    [class : {"LiveChatChannel", "OtherChannel"},
     slug : {"main", "other"},
     order : {"channel first", "slug first"},
     spaced : BOOLEAN,
     extra : {"none", "string", "number"},
     keys : {"lower", "upper"},
     flaw : {"none", "unclosed", "no colon", "trailing", "number for slug"}]

RECURSIVE Join(_)
Join(memberTexts) ==
    IF memberTexts = <<>> THEN <<>>
    ELSE IF Len(memberTexts) = 1 THEN memberTexts[1]
    ELSE memberTexts[1] \o <<Pn(",")>> \o Join(Tail(memberTexts))

RECURSIVE Spaced(_)
Spaced(text) ==
    IF text = <<>> THEN <<Space>>
    ELSE <<Space, Head(text)>> \o Spaced(Tail(text))

RenderId(d) ==
    LET colon == IF d.flaw = "no colon" THEN <<>> ELSE <<Pn(":")>>
        class == <<Str(IF d.keys = "lower" THEN "channel" ELSE "CHANNEL")>>
                     \o colon \o <<Str(d.class)>>
        slug == <<Str(IF d.keys = "lower" THEN "chat_channel" ELSE "Chat_Channel"),
                  Pn(":"),
                  IF d.flaw = "number for slug" THEN Num(1) ELSE Str(d.slug)>>
        extra == IF d.extra = "none" THEN <<>>
                 ELSE <<<<Str("extra"), Pn(":"),
                          IF d.extra = "string" THEN Str("field") ELSE Num(1)>>>>
        members == (IF d.order = "channel first"
                    THEN <<class, slug>> ELSE <<slug, class>>) \o extra
        text == <<Pn("{")>> \o Join(members)
                    \o (IF d.flaw = "unclosed" THEN <<>> ELSE <<Pn("}")>>)
                    \o (IF d.flaw = "trailing" THEN <<Junk>> ELSE <<>>)
    IN IF d.spaced THEN Spaced(text) ELSE text

NoShape ==
    [class |-> "", slug |-> "", order |-> "", spaced |-> FALSE, extra |-> "none",
     keys |-> "lower", flaw |-> "no object"]
\* the empty string, `not json`, null, a string and an empty object
OtherIds == {<<>>, <<Junk, Space, Junk>>, <<Null>>, <<Str("LiveChatChannel")>>,
             <<Pn("{"), Pn("}")>>}
MatchCalls ==
    {[fn |-> "matchesSubscription", arg |-> [shape |-> d, text |-> RenderId(d)]] :
        d \in IdShapes}
    \cup {[fn |-> "matchesSubscription", arg |-> [shape |-> NoShape, text |-> t]] :
        t \in OtherIds}

\* readLoop: c.matchesSubscription(raw.Identifier)
ApplyMatchesSubscription ==
    /\ callIn.fn = "matchesSubscription"
    /\ callOut = NoValue
    /\ callOut' = [value |-> matchesSubscription(identifierOf(callIn.arg.text))]
    /\ UNCHANGED <<callIn, messages, ctxDone, socketVars, dispVars, echoVars,
                   pollVars, ircVars>>

(***************************************************************************)
(* youtube.Client.Connect: fetchLiveChatID, then fetchMessages at once and *)
(* at every tick                                                           *)
(***************************************************************************)
\* NewClient: pollingRate = 3 * time.Second, in milliseconds
DefaultPollingRate == 3000
\* c.videoID
VideoID == "vid"

\* what an HTTP exchange ends with: no response (the request failed), or a
\* status and a body that decodes or not
NoResponse ==
    [responded |-> FALSE, status |-> 0, decodes |-> FALSE, canceled |-> FALSE]
\* the request was given a cancelled context: Do fails with the context's error
RequestCanceled ==
    [responded |-> FALSE, status |-> 0, decodes |-> FALSE, canceled |-> TRUE]

\* the body of the videos API: the activeLiveChatId of each item
VideoResponse(status, decodes, ids) ==
    [responded |-> TRUE, status |-> status, decodes |-> decodes, ids |-> ids]
VideoResponses ==
    {VideoResponse(403, TRUE, <<>>), VideoResponse(404, FALSE, <<>>),
     VideoResponse(200, FALSE, <<>>), VideoResponse(200, TRUE, <<>>),
     VideoResponse(200, TRUE, <<"">>), VideoResponse(200, TRUE, <<"", "chat2">>),
     VideoResponse(200, TRUE, <<"chat1">>), VideoResponse(200, TRUE, <<"chat1", "">>)}

\* the body of the liveChat/messages API
Item(id, publishedAt, displayMessage, displayName) ==
    [id |-> id, publishedAt |-> publishedAt, displayMessage |-> displayMessage,
     displayName |-> displayName]
I1 == Item(1, "rfc3339", <<"h", "i">>, <<"v", "1">>)
I2 == Item(2, "garbled", <<"y", "o">>, <<"v", "2">>)
ChatResponse(status, decodes, next, interval, its) ==
    [responded |-> TRUE, status |-> status, decodes |-> decodes,
     nextPageToken |-> next, pollingIntervalMillis |-> interval, items |-> its]
\* (the two failing responses carry a cursor, an interval and an item: an
\* error body can hold them, and a body that stops decoding midway has
\* filled the fields before the fault)
ChatResponses ==
    {ChatResponse(403, TRUE, "t2", 5000, <<I1>>),
     ChatResponse(200, FALSE, "t2", 5000, <<I1>>)}
    \cup {ChatResponse(200, TRUE, next, interval, its) :
            next \in {"", "t1", "t2"}, interval \in {0, 5000},
            its \in {<<>>, <<I1>>, <<I1, I2>>}}

\* the errors of the adapter
ErrRequest == [kind |-> "error", text |-> <<"request failed">>]
\* the error of a request that got no response
DoError(resp) == IF resp.canceled THEN ErrContext ELSE ErrRequest
ErrStatus(status) ==
    [kind |-> "error", text |-> <<"API returned status ">> \o Decimal(status)]
ErrDecode == [kind |-> "error", text |-> <<"decode failed">>]
ErrVideoNotFound == [kind |-> "error", text |-> <<"video not found: ", VideoID>>]
ErrNoLiveChat ==
    [kind |-> "error", text |-> <<"video ", VideoID, " does not have an active live chat">>]
ErrLiveChatID(cause) ==
    [kind |-> "error", text |-> <<"failed to get live chat ID: ">> \o cause.text]

\* a variant that takes whatever id the first item carries
fetchLiveChatIDUnchecked(resp) ==
    IF ~resp.responded THEN [err |-> DoError(resp), liveChatID |-> ""]
    ELSE IF resp.status # 200 THEN [err |-> ErrStatus(resp.status), liveChatID |-> ""]
    ELSE IF ~resp.decodes THEN [err |-> ErrDecode, liveChatID |-> ""]
    ELSE IF Len(resp.ids) = 0 THEN [err |-> ErrVideoNotFound, liveChatID |-> ""]
    ELSE [err |-> Nil, liveChatID |-> resp.ids[1]]

\* fetchLiveChatID, by what the metadata request ended with: its error and
\* the c.liveChatID it leaves
fetchLiveChatID(resp) ==
    IF ~resp.responded THEN [err |-> DoError(resp), liveChatID |-> ""]
    ELSE IF resp.status # 200 THEN [err |-> ErrStatus(resp.status), liveChatID |-> ""]
    ELSE IF ~resp.decodes THEN [err |-> ErrDecode, liveChatID |-> ""]
    ELSE IF Len(resp.ids) = 0 THEN [err |-> ErrVideoNotFound, liveChatID |-> ""]
    ELSE IF resp.ids[1] = "" THEN [err |-> ErrNoLiveChat, liveChatID |-> ""]
    ELSE [err |-> Nil, liveChatID |-> resp.ids[1]]

\* fetchMessages up to the range over the items: its error
fetchError(resp) ==
    IF ~resp.responded THEN DoError(resp)
    ELSE IF resp.status # 200 THEN ErrStatus(resp.status)
    ELSE IF ~resp.decodes THEN ErrDecode
    ELSE Nil

\* the Message fetchMessages builds from an item
itemToMessage(item) ==
    Message(YouTube, item.displayName,
            IF item.publishedAt = "rfc3339" THEN <<"at", item.id>> ELSE <<"now">>,
            item.displayMessage)

VideosRequest == [api |-> "videos", id |-> VideoID, pageToken |-> ""]
\* a variant that asks for the first page every time
MessagesRequestFirstPage == [api |-> "messages", id |-> liveChatID, pageToken |-> ""]

\* the request fetchMessages builds (pageToken "": the parameter is left out)
MessagesRequest == [api |-> "messages", id |-> liveChatID, pageToken |-> pageToken]

PollInit ==
    /\ pollPc = "resolve"
    /\ liveChatID = ""
    /\ pageToken = ""
    /\ pollingRate = DefaultPollingRate
    /\ tickerPeriod = 0
    /\ fetches = 0
    /\ items = <<>>
    /\ videoResp = NoValue
    /\ requests = <<>>
    /\ pollEmitted = <<>>
    /\ pollLogged = <<>>
    /\ pollResult = NoValue
    /\ chatLog = <<>>

PollFrame == UNCHANGED <<socketVars, dispVars, echoVars, callVars, ircVars>>

\* Connect: fetchLiveChatID; on its error return, else create the ticker.
\* On a cancelled context the request fails before it is written.
PollResolve ==
    /\ pollPc = "resolve"
    /\ \E resp \in IF ctxDone THEN {RequestCanceled} ELSE VideoResponses \cup {NoResponse} :
        LET out == fetchLiveChatID(resp)
        IN /\ videoResp' = resp
           /\ liveChatID' = out.liveChatID
           /\ IF out.err # Nil
              THEN /\ pollResult' = ErrLiveChatID(out.err)
                   /\ pollPc' = "returned"
                   /\ UNCHANGED tickerPeriod
              ELSE /\ tickerPeriod' = pollingRate
                   /\ pollPc' = "fetch"
                   /\ UNCHANGED pollResult
    /\ requests' = IF ctxDone THEN requests ELSE Append(requests, VideosRequest)
    /\ UNCHANGED <<messages, ctxDone, pageToken, pollingRate, fetches, items,
                   pollEmitted, pollLogged, chatLog>>
    /\ PollFrame

\* a variant in which every fetch error ends Connect
PollFetchAlwaysFatal ==
    /\ pollPc \in {"fetch", "tick"}
    /\ \E resp \in IF ctxDone THEN {RequestCanceled} ELSE ChatResponses \cup {NoResponse} :
        LET err == fetchError(resp)
        IN /\ IF err # Nil
              THEN /\ pollResult' = err
                   /\ pollPc' = "returned"
                   /\ UNCHANGED <<pollLogged, pageToken, pollingRate, items>>
              ELSE /\ pageToken' = resp.nextPageToken
                   /\ pollingRate' = IF resp.pollingIntervalMillis > 0
                                     THEN resp.pollingIntervalMillis
                                     ELSE pollingRate
                   /\ items' = resp.items
                   /\ pollPc' = IF resp.items = <<>> THEN "wait" ELSE "send"
                   /\ UNCHANGED <<pollResult, pollLogged>>
           /\ chatLog' = Append(chatLog, [pageToken |-> MessagesRequest.pageToken,
                                          resp |-> resp])
    /\ requests' = IF ctxDone THEN requests ELSE Append(requests, MessagesRequest)
    /\ fetches' = fetches + 1
    /\ UNCHANGED <<messages, ctxDone, liveChatID, tickerPeriod, videoResp,
                   pollEmitted>>
    /\ PollFrame

\* a variant that stores the cursor of a response before it looks at its
\* status
PollFetchKeepsPartial ==
    /\ pollPc \in {"fetch", "tick"}
    /\ \E resp \in IF ctxDone THEN {RequestCanceled} ELSE ChatResponses \cup {NoResponse} :
        LET err == fetchError(resp)
        IN /\ IF err # Nil
              THEN /\ IF pollPc = "fetch"
                      THEN /\ pollResult' = err
                           /\ pollPc' = "returned"
                           /\ UNCHANGED pollLogged
                      ELSE /\ pollLogged' = Append(pollLogged, err)
                           /\ pollPc' = "wait"
                           /\ UNCHANGED pollResult
                   /\ pageToken' = IF resp.responded THEN resp.nextPageToken
                                   ELSE pageToken
                   /\ UNCHANGED <<pollingRate, items>>
              ELSE /\ pageToken' = resp.nextPageToken
                   /\ pollingRate' = IF resp.pollingIntervalMillis > 0
                                     THEN resp.pollingIntervalMillis
                                     ELSE pollingRate
                   /\ items' = resp.items
                   /\ pollPc' = IF resp.items = <<>> THEN "wait" ELSE "send"
                   /\ UNCHANGED <<pollResult, pollLogged>>
           /\ chatLog' = Append(chatLog, [pageToken |-> MessagesRequest.pageToken,
                                          resp |-> resp])
    /\ requests' = IF ctxDone THEN requests ELSE Append(requests, MessagesRequest)
    /\ fetches' = fetches + 1
    /\ UNCHANGED <<messages, ctxDone, liveChatID, tickerPeriod, videoResp,
                   pollEmitted>>
    /\ PollFrame

\* fetchMessages, from the request to the range over the items. Its error
\* ends Connect when it is the initial fetch and is printed when it is a
\* fetch of the loop.
PollFetch ==
    /\ pollPc \in {"fetch", "tick"}
    /\ \E resp \in IF ctxDone THEN {RequestCanceled} ELSE ChatResponses \cup {NoResponse} :
        LET err == fetchError(resp)
        IN /\ IF err # Nil
              THEN /\ IF pollPc = "fetch"
                      THEN /\ pollResult' = err
                           /\ pollPc' = "returned"
                           /\ UNCHANGED pollLogged
                      ELSE /\ pollLogged' = Append(pollLogged, err)
                           /\ pollPc' = "wait"
                           /\ UNCHANGED pollResult
                   /\ UNCHANGED <<pageToken, pollingRate, items>>
              ELSE /\ pageToken' = resp.nextPageToken
                   /\ pollingRate' = IF resp.pollingIntervalMillis > 0
                                     THEN resp.pollingIntervalMillis
                                     ELSE pollingRate
                   /\ items' = resp.items
                   /\ pollPc' = IF resp.items = <<>> THEN "wait" ELSE "send"
                   /\ UNCHANGED <<pollResult, pollLogged>>
           /\ chatLog' = Append(chatLog, [pageToken |-> MessagesRequest.pageToken,
                                          resp |-> resp])
    /\ requests' = IF ctxDone THEN requests ELSE Append(requests, MessagesRequest)
    /\ fetches' = fetches + 1
    /\ UNCHANGED <<messages, ctxDone, liveChatID, tickerPeriod, videoResp,
                   pollEmitted>>
    /\ PollFrame

\* fetchMessages: `messages <- message.Message{...}` for the next item
\* (blocking while the buffer is full)
PollSend ==
    /\ pollPc = "send"
    /\ Len(messages) < ChanCap
    /\ messages' = Append(messages, itemToMessage(Head(items)))
    /\ pollEmitted' = Append(pollEmitted, itemToMessage(Head(items)))
    /\ items' = Tail(items)
    /\ pollPc' = IF Tail(items) = <<>> THEN "wait" ELSE "send"
    /\ UNCHANGED <<ctxDone, liveChatID, pageToken, pollingRate, tickerPeriod,
                   fetches, videoResp, requests, pollLogged, pollResult,
                   chatLog>>
    /\ PollFrame

\* Connect's select: the ticker fires
PollTick ==
    /\ pollPc = "wait"
    /\ fetches < MaxFetches
    /\ pollPc' = "tick"
    /\ UNCHANGED <<messages, ctxDone, liveChatID, pageToken, pollingRate,
                   tickerPeriod, fetches, items, videoResp, requests,
                   pollEmitted, pollLogged, pollResult, chatLog>>
    /\ PollFrame

\* Connect's select: <-ctx.Done()
PollCanceled ==
    /\ pollPc = "wait"
    /\ ctxDone
    /\ pollResult' = ErrCanceled
    /\ pollPc' = "returned"
    /\ UNCHANGED <<messages, ctxDone, liveChatID, pageToken, pollingRate,
                   tickerPeriod, fetches, items, videoResp, requests,
                   pollEmitted, pollLogged, chatLog>>
    /\ PollFrame

\* the interrupt handler calls cancel()
PollCancel ==
    /\ ~ctxDone
    /\ ctxDone' = TRUE
    /\ UNCHANGED <<messages, pollVars>>
    /\ PollFrame

\* the dispatcher takes the oldest message off the unified channel
PollDrain ==
    /\ messages # <<>>
    /\ messages' = Tail(messages)
    /\ UNCHANGED <<ctxDone, pollVars>>
    /\ PollFrame

(***************************************************************************)
(* twitch: the lines of the IRC connection and parsePrivMsg                *)
(*                                                                         *)
(* A line is a sequence of one-character strings in which the words the    *)
(* code searches for, PRIVMSG and PING, stand as one element each.         *)
(***************************************************************************)
\* strings.Contains: sub occurs in text as a run of consecutive elements
Contains(text, sub) ==
    \E i \in 0..(Len(text) - Len(sub)) : SubSeq(text, i + 1, i + Len(sub)) = sub

\* strings.Index: where sub first occurs in s (0: nowhere)
stringsIndex(s, sub) ==
    IF Contains(s, sub)
    THEN CHOOSE i \in 1..(Len(s) - Len(sub) + 1) :
            /\ SubSeq(s, i, i + Len(sub) - 1) = sub
            /\ \A j \in 1..(i - 1) : SubSeq(s, j, j + Len(sub) - 1) # sub
    ELSE 0

\* strings.SplitN(s, sep, 2): one part when sep does not occur, else the
\* text before its first occurrence and the text after it
SplitN2(s, sep) ==
    LET i == stringsIndex(s, sep)
    IN IF i = 0 THEN <<s>>
       ELSE <<SubSeq(s, 1, i - 1), SubSeq(s, i + Len(sep), Len(s))>>

\* parsePrivMsg
parsePrivMsg(line) ==
    IF ~Contains(line, <<"PRIVMSG">>) THEN [ok |-> FALSE]
    ELSE IF ~HasPrefix(line, <<":">>) THEN [ok |-> FALSE]
    ELSE LET parts == SplitN2(Tail(line), <<"!">>)
             msgIdx == stringsIndex(line, <<" ", ":">>)
             afterPrivmsg == SplitN2(line, <<"PRIVMSG">>)
         IN IF Len(parts) < 2 THEN [ok |-> FALSE]
            ELSE IF msgIdx = 0 THEN [ok |-> FALSE]
            ELSE IF Len(afterPrivmsg) < 2 THEN [ok |-> FALSE]
            ELSE LET contentIdx == stringsIndex(afterPrivmsg[2], <<":">>)
                 IN IF contentIdx = 0 THEN [ok |-> FALSE]
                    ELSE [ok |-> TRUE,
                          msg |-> Message(Twitch, parts[1], <<"now">>,
                                          SubSeq(afterPrivmsg[2], contentIdx + 1,
                                                 Len(afterPrivmsg[2])))]

\* longest text before and after the PRIVMSG word of a generated line
MaxPart == 3
\* the characters of the generated lines
LineChars == {":", "!", " ", "u"}
\* the lines of TestParsePrivMsg, shortened
L_standard == <<":", "u", "!", "u", "@", "u", " ", "PRIVMSG", " ", "#", "c", " ",
                ":", "h", "i", " ", "w">>
L_colons == <<":", "u", "!", "u", " ", "PRIVMSG", " ", "#", "c", " ",
              ":", "1", "2", ":", "3", "4", ":", "5">>
L_ping == <<"PING", " ", ":", "t", "m", "i">>
L_join == <<":", "u", "!", "u", " ", "J", "O", "I", "N", " ", "#", "c">>
L_noMarker == <<"u", " ", "PRIVMSG", " ", "#", "c", " ", ":", "h", "i">>
L_noBang == <<":", "u", " ", "PRIVMSG", " ", "#", "c", " ", ":", "h", "i">>
\* lines with two PRIVMSG words, and with a colon right after the channel
L_twice == <<":", "u", "!", "u", " ", "PRIVMSG", " ", "#", "c", " ",
             ":", "PRIVMSG", " ", ":", "x">>
L_tightColon == <<":", "u", "!", "u", " ", "PRIVMSG", " ", "#", "c", ":", "x",
                  " ", ":", "h", "i">>
TestLines ==
    {L_standard, L_colons, L_ping, L_join, <<>>, L_noMarker, L_noBang, L_twice,
     L_tightColon}
PrivMsgLines ==
    TestLines \cup
    {before \o word \o after :
        before \in StringsUpTo(LineChars, MaxPart),
        word \in {<<>>, <<"PRIVMSG">>},
        after \in StringsUpTo(LineChars, MaxPart)}
PrivMsgCalls == {[fn |-> "parsePrivMsg", arg |-> line] : line \in PrivMsgLines}

\* Connect: msg, ok := parsePrivMsg(line)
ApplyParsePrivMsg ==
    /\ callIn.fn = "parsePrivMsg"
    /\ callOut = NoValue
    /\ callOut' = [value |-> parsePrivMsg(callIn.arg)]
    /\ UNCHANGED <<callIn, messages, ctxDone, socketVars, dispVars, echoVars,
                   pollVars, ircVars>>

(***************************************************************************)
(* twitch.Client.Connect                                                   *)
(***************************************************************************)
\* reads of the connection that Connect makes before the cancellation
MaxReads == 2

\* the characters strings.TrimSpace removes
WhiteSpace == {" ", "\t", "\r", "\n"}
\* strings.TrimSpace
RECURSIVE TrimLeft(_)
TrimLeft(s) ==
    IF s # <<>> /\ Head(s) \in WhiteSpace THEN TrimLeft(Tail(s)) ELSE s
RECURSIVE TrimRight(_)
TrimRight(s) ==
    IF s # <<>> /\ s[Len(s)] \in WhiteSpace
    THEN TrimRight(SubSeq(s, 1, Len(s) - 1))
    ELSE s
TrimSpace(s) == TrimRight(TrimLeft(s))
\* strings.TrimPrefix
TrimPrefix(s, prefix) ==
    IF HasPrefix(s, prefix) THEN SubSeq(s, Len(prefix) + 1, Len(s)) ELSE s

CRLF == <<"\r", "\n">>
\* what ReadString('\n') ends with: the deadline passing, another error, or
\* a line with its line ending. With an error ReadString returns the bytes
\* it read before the error, and they are gone from the reader.
ReadPartial(part) == [kind |-> "timeout", part |-> part]
ReadTimeout == ReadPartial(<<>>)
ReadFailed == [kind |-> "error"]
ReadLine(raw) == [kind |-> "line", raw |-> raw]
L_pingBare == <<"PING">>
L_pingPrivMsg == <<"PING", " ", ":", "u", "!", "u", " ", "PRIVMSG", " ", "#", "c",
                   " ", ":", "h", "i">>
IrcLines ==
    {l \o CRLF : l \in {L_ping, L_pingBare, L_pingPrivMsg, L_standard, L_join}}
        \cup {<<" ">> \o L_ping \o <<" ">> \o CRLF}
ReadOutcomes == {ReadTimeout, ReadFailed} \cup {ReadLine(raw) : raw \in IrcLines}
\* a read and what it leaves of the line under way: a whole outcome, or the
\* deadline passing after the first k bytes of a chat line
ReadChoices ==
    {[got |-> g, rest |-> <<>>] : g \in ReadOutcomes}
        \cup {[got |-> ReadPartial(SubSeq(L_standard \o CRLF, 1, k)),
               rest |-> SubSeq(L_standard \o CRLF, k + 1, Len(L_standard \o CRLF))] :
                 k \in 1..(Len(L_standard \o CRLF) - 1)}
\* the reads that can follow such a partial read: the rest of the line
\* arrives, or not yet, or the connection fails
ReadChoicesAfter(rest) ==
    {[got |-> ReadLine(rest), rest |-> <<>>],
     [got |-> ReadTimeout, rest |-> rest],
     [got |-> ReadFailed, rest |-> rest]}

\* a variant that takes no read error for a timeout
IsTimeoutNever(got) == FALSE

\* Connect: the read error is a net.Error whose Timeout() is true
IsTimeout(got) == got.kind = "timeout"

ErrIrcDial == [kind |-> "error", text |-> <<"failed to connect to Twitch IRC: ">>]
ErrIrcRead == [kind |-> "error", text |-> <<"read error: ">>]

\* the registration Connect writes (the random number of the nickname is
\* left open)
Registration ==
    <<<<"NICK", " ", "justinfan">> \o CRLF, <<"JOIN", " ", "#", "c">> \o CRLF>>

\* a variant that answers without the text of the PING
PongLineBare(line) == <<"PONG">> \o CRLF

\* Connect: the answer to a trimmed line that begins with PING
PongLine(line) == <<"PONG">> \o TrimPrefix(line, <<"PING">>) \o CRLF

IrcInit ==
    /\ ircPc = "dial"
    /\ ircMsg = NoValue
    /\ ircReads = <<>>
    /\ ircWritten = <<>>
    /\ ircEmitted = <<>>
    /\ ircLateReads = 0
    /\ ircRest = <<>>
    /\ ircResult = NoValue

IrcFrame == UNCHANGED <<socketVars, dispVars, echoVars, callVars, pollVars>>

\* Connect: net.Dial succeeds, NICK and JOIN are written
IrcDialOk ==
    /\ ircPc = "dial"
    /\ ircWritten' = Registration
    /\ ircPc' = "select"
    /\ UNCHANGED <<messages, ctxDone, ircMsg, ircReads, ircEmitted, ircLateReads,
                   ircResult>>
    /\ UNCHANGED ircRest
    /\ IrcFrame

\* Connect: net.Dial fails
IrcDialFail ==
    /\ ircPc = "dial"
    /\ ircResult' = ErrIrcDial
    /\ ircPc' = "returned"
    /\ UNCHANGED <<messages, ctxDone, ircMsg, ircReads, ircWritten, ircEmitted,
                   ircLateReads>>
    /\ UNCHANGED ircRest
    /\ IrcFrame

\* Connect's select: <-ctx.Done() is ready
IrcSelectCanceled ==
    /\ ircPc = "select"
    /\ ctxDone
    /\ ircResult' = ErrCanceled
    /\ ircPc' = "returned"
    /\ UNCHANGED <<messages, ctxDone, ircMsg, ircReads, ircWritten, ircEmitted,
                   ircLateReads>>
    /\ UNCHANGED ircRest
    /\ IrcFrame

\* Connect's select: default, the read deadline is set and the read begins
IrcSelectDefault ==
    /\ ircPc = "select"
    /\ ~ctxDone
    /\ ircPc' = "read"
    /\ UNCHANGED <<messages, ctxDone, ircMsg, ircReads, ircWritten, ircEmitted,
                   ircLateReads, ircResult>>
    /\ UNCHANGED ircRest
    /\ IrcFrame

\* Connect: ReadString returns; a timeout is retried, another error ends
\* Connect, a PING line is answered, a line parsePrivMsg accepts is to be
\* sent, any other line is skipped
IrcRead ==
    /\ ircPc = "read"
    /\ Len(ircReads) < MaxReads \/ ctxDone
    /\ \E choice \in IF ircRest = <<>> THEN ReadChoices
                    ELSE ReadChoicesAfter(ircRest) :
        LET got == choice.got IN
        /\ ircReads' = Append(ircReads, got)
        /\ ircRest' = choice.rest
        /\ IF got.kind # "line" /\ IsTimeout(got)
           THEN /\ ircPc' = "select"
                /\ UNCHANGED <<ircMsg, ircWritten, ircResult>>
           ELSE IF got.kind # "line"
           THEN /\ ircResult' = ErrIrcRead
                /\ ircPc' = "returned"
                /\ UNCHANGED <<ircMsg, ircWritten>>
           ELSE LET line == TrimSpace(got.raw)
                    parsed == parsePrivMsg(line)
                IN IF HasPrefix(line, <<"PING">>)
                   THEN /\ ircWritten' = Append(ircWritten, PongLine(line))
                        /\ ircPc' = "select"
                        /\ UNCHANGED <<ircMsg, ircResult>>
                   ELSE IF parsed.ok
                   THEN /\ ircMsg' = parsed.msg
                        /\ ircPc' = "send"
                        /\ UNCHANGED <<ircWritten, ircResult>>
                   ELSE /\ ircPc' = "select"
                        /\ UNCHANGED <<ircMsg, ircWritten, ircResult>>
    /\ ircLateReads' = IF ctxDone THEN ircLateReads + 1 ELSE ircLateReads
    /\ UNCHANGED <<messages, ctxDone, ircEmitted>>
    /\ IrcFrame

\* Connect: `messages <- msg` (blocking while the buffer is full)
IrcSend ==
    /\ ircPc = "send"
    /\ Len(messages) < ChanCap
    /\ messages' = Append(messages, ircMsg)
    /\ ircEmitted' = Append(ircEmitted, ircMsg)
    /\ ircMsg' = NoValue
    /\ ircPc' = "select"
    /\ UNCHANGED <<ctxDone, ircReads, ircWritten, ircLateReads, ircResult>>
    /\ UNCHANGED ircRest
    /\ IrcFrame

\* the interrupt handler calls cancel()
IrcCancel ==
    /\ ~ctxDone
    /\ ctxDone' = TRUE
    /\ UNCHANGED <<messages, ircVars>>
    /\ IrcFrame

\* the dispatcher takes the oldest message off the unified channel
IrcDrain ==
    /\ messages # <<>>
    /\ messages' = Tail(messages)
    /\ UNCHANGED <<ctxDone, ircVars>>
    /\ IrcFrame

(***************************************************************************)
(* Specifications                                                          *)
(***************************************************************************)
SocketParked ==
    /\ connPc = "off"
    /\ loopPc = "off"
    /\ firstFrame = NoValue
    /\ framesRead = <<>>
    /\ pending = <<>>
    /\ readErr = NoValue
    /\ connectResult = NoValue
    /\ outbound = <<>>
    /\ emitted = <<>>
    /\ connClosed = FALSE
    /\ firstEvent = "none"

DispParked ==
    /\ bridge = FALSE
    /\ srcOpen = {}
    /\ messagesClosed = FALSE
    /\ dispPc = "off"
    /\ dispMsg = NoValue
    /\ printerCh = <<>>
    /\ printerClosed = FALSE
    /\ uplinkCh = <<>>
    /\ uplinkClosed = FALSE
    /\ printerPc = "off"
    /\ upPc = "off"
    /\ upMsg = NoValue
    /\ received = <<>>
    /\ displayed = <<>>
    /\ bridged = <<>>
    /\ dropped = <<>>
    /\ printed = <<>>
    /\ posted = <<>>
    /\ lastStatus = 0
    /\ closedWith = <<>>
    /\ sent = <<>>

EchoParked == echoIn = NoValue /\ echoOut = [value |-> FALSE]

CallParked == callIn = NoValue /\ callOut = [value |-> FALSE]

PollParked ==
    /\ pollPc = "off"
    /\ liveChatID = ""
    /\ pageToken = ""
    /\ pollingRate = 0
    /\ tickerPeriod = 0
    /\ fetches = 0
    /\ items = <<>>
    /\ videoResp = NoValue
    /\ requests = <<>>
    /\ pollEmitted = <<>>
    /\ pollLogged = <<>>
    /\ pollResult = NoValue
    /\ chatLog = <<>>

IrcParked ==
    /\ ircPc = "off"
    /\ ircMsg = NoValue
    /\ ircReads = <<>>
    /\ ircWritten = <<>>
    /\ ircEmitted = <<>>
    /\ ircLateReads = 0
    /\ ircRest = <<>>
    /\ ircResult = NoValue

\* the socket adapter alone, its peer and the dispatcher's receive as environment
SocketSpecInit ==
    /\ messages = <<>> /\ ctxDone = FALSE
    /\ SocketInit /\ DispParked /\ EchoParked /\ CallParked /\ PollParked
    /\ IrcParked
SocketNext ==
    \/ DialOk
    \/ DialFail
    \/ WaitForWelcome
    \/ SubscribeOk
    \/ SubscribeFail
    \/ ReadFrame
    \/ ReadError
    \/ ReadMalformed
    \/ RangePacket
    \/ SocketCancel
    \/ SelectCanceled
    \/ SelectReadErr
    \/ SocketDrain
SpecSocket == SocketSpecInit /\ [][SocketNext]_vars

\* the socket adapter as the last adapter running, with main's wg.Wait,
\* close(messages) and return
ShutdownNext ==
    \/ SocketNext
    \/ MainClose
    \/ SendOnClosed
    \/ MainReturn
SpecShutdown == SocketSpecInit /\ [][ShutdownNext]_vars

\* main's channels and tasks, the source adapters as environment
DispSpecInit ==
    /\ messages = <<>> /\ ctxDone = FALSE
    /\ DispInit /\ SocketParked /\ EchoParked /\ CallParked /\ PollParked
    /\ IrcParked
DispNext ==
    \/ SourceSend
    \/ SourceReturn
    \/ CloseMessages
    \/ DispCancel
    \/ DispRecv
    \/ DispPrint
    \/ DispOffer
    \/ DispClose
    \/ PrinterPrint
    \/ PrinterDone
    \/ UplinkTake
    \/ UplinkClosed
    \/ UplinkCanceled
    \/ UplinkSend
    \/ UplinkResponse
    \/ UplinkSendAborted
    \/ UplinkSendCanceled
    \/ UplinkCooldownOver
SpecDispatch == DispSpecInit /\ [][DispNext]_vars

\* the same tasks together with main's return
MainNext ==
    \/ DispNext
    \/ MainExit
SpecMain == DispSpecInit /\ [][MainNext]_vars

\* isBridgeEcho on every input within the bounds
EchoSpecInit ==
    /\ messages = <<>> /\ ctxDone = FALSE
    /\ EchoInit /\ SocketParked /\ DispParked /\ CallParked /\ PollParked
    /\ IrcParked
EchoNext == EchoApply
SpecEcho == EchoSpecInit /\ [][EchoNext]_vars

\* the functions of the uplink client and matchesSubscription, one call each
CallInit ==
    /\ callIn \in FormatCalls \cup SendCalls \cup NewClientCalls \cup MatchCalls
                    \cup PrivMsgCalls
    /\ callOut = NoValue
CallSpecInit ==
    /\ messages = <<>> /\ ctxDone = FALSE
    /\ CallInit /\ SocketParked /\ DispParked /\ EchoParked /\ PollParked
    /\ IrcParked
CallNext ==
    \/ ApplyFormatContent
    \/ ApplySend
    \/ ApplyNewClient
    \/ ApplyMatchesSubscription
    \/ ApplyParsePrivMsg
SpecCalls == CallSpecInit /\ [][CallNext]_vars

\* the polling adapter alone, the APIs and the dispatcher's receive as
\* environment
PollSpecInit ==
    /\ messages = <<>> /\ ctxDone = FALSE
    /\ PollInit /\ SocketParked /\ DispParked /\ EchoParked /\ CallParked
    /\ IrcParked
PollNext ==
    \/ PollResolve
    \/ PollFetch
    \/ PollSend
    \/ PollTick
    \/ PollCanceled
    \/ PollCancel
    \/ PollDrain
SpecPoll == PollSpecInit /\ [][PollNext]_vars

\* the IRC adapter alone, the server and the dispatcher's receive as
\* environment
IrcSpecInit ==
    /\ messages = <<>> /\ ctxDone = FALSE
    /\ IrcInit /\ SocketParked /\ DispParked /\ EchoParked /\ CallParked
    /\ PollParked
IrcNext ==
    \/ IrcDialOk
    \/ IrcDialFail
    \/ IrcSelectCanceled
    \/ IrcSelectDefault
    \/ IrcRead
    \/ IrcSend
    \/ IrcCancel
    \/ IrcDrain
SpecIrc == IrcSpecInit /\ [][IrcNext]_vars

(***************************************************************************)
(* Vocabulary of the properties                                            *)
(***************************************************************************)
Range(seq) == {seq[i] : i \in 1..Len(seq)}

\* the raw identifier denotes the adapter's own subscription key
DenotesOwnKey(raw) ==
    /\ raw.wellFormed
    /\ <<"channel", "LiveChatChannel">> \in Range(raw.members)
    /\ <<"chat_channel", OwnSlug>> \in Range(raw.members)

ProtocolTypes == {"ping", "confirm_subscription", "reject_subscription", "disconnect"}
FatalTypes == {"reject_subscription", "disconnect"}

\* the packets a data frame of the adapter's own subscription carries
CarriedPackets(f) ==
    IF /\ f.type \notin ProtocolTypes
       /\ DenotesOwnKey(f.identifier)
       /\ f.message.present
       /\ f.message.object
       /\ f.message.bodyOk
       /\ f.message.type \in {"initial_packets", "new_packet"}
    THEN f.message.packets
    ELSE <<>>

\* the Message a non-dropped packet stands for
MessageOf(p) ==
    [Platform |-> HackrTV, Username |-> p.hackr_alias, Content |-> p.content,
     Timestamp |-> IF p.created_at = "rfc3339" THEN <<"at", p.id>> ELSE <<"now">>]

RECURSIVE LiveMessages(_)
LiveMessages(packets) ==
    IF packets = <<>> THEN <<>>
    ELSE (IF Head(packets).dropped THEN <<>> ELSE <<MessageOf(Head(packets))>>)
         \o LiveMessages(Tail(packets))

RECURSIVE ExpectedMessages(_)
ExpectedMessages(frames) ==
    IF frames = <<>> THEN <<>>
    ELSE ExpectedMessages(SubSeq(frames, 1, Len(frames) - 1))
         \o LiveMessages(CarriedPackets(frames[Len(frames)]))

\* readLoop is between two frames (or has returned)
LoopBetweenFrames == loopPc \in {"read", "done"} /\ pending = <<>>

\* this step is readLoop decoding one more frame
FrameStep == Len(framesRead') = Len(framesRead) + 1
NewFrame == framesRead'[Len(framesRead')]

(***************************************************************************)
(* C1: a packet with dropped = true never produces a Message on the        *)
(* unified channel, neither inside an initial_packets batch nor as a       *)
(* single new_packet: nothing the adapter sent, and nothing in the         *)
(* channel, is the Message of a dropped packet.                            *)
(***************************************************************************)
C1_DroppedNeverEmitted ==
    \A p \in Packets :
        p.dropped =>
            /\ \A i \in 1..Len(emitted) : emitted[i].Content # p.content
            /\ \A i \in 1..Len(messages) : messages[i].Content # p.content

\* both paths met a dropped packet and a live one got through
C1_Witness ==
    /\ F_batch \in Range(framesRead)
    /\ F_newDropped \in Range(framesRead)
    /\ LoopBetweenFrames
    /\ emitted # <<>>

(***************************************************************************)
(* C2: the adapter emits exactly one Message per non-dropped packet        *)
(* carried by the data frames of its own subscription, in frame order and, *)
(* within a batch, in batch order: what it has sent, followed by the live  *)
(* packets it still ranges over, is the expected sequence for the frames   *)
(* read. In particular the batch (dropped, live), a live packet and a      *)
(* dropped packet yield exactly the two survivors, historical first.       *)
(***************************************************************************)
C2_OnePerLivePacketInOrder ==
    /\ emitted \o LiveMessages(pending) = ExpectedMessages(framesRead)
    /\ (framesRead = <<F_batch, F_new, F_newDropped>> /\ LoopBetweenFrames)
           => emitted = <<MessageOf(P2), MessageOf(P3)>>

C2_Witness ==
    /\ framesRead = <<F_batch, F_new, F_newDropped>>
    /\ loopPc = "read"
    /\ Len(emitted) = 2

\* a confirmation of the adapter's own subscription is among the frames
OwnConfirmation(f) ==
    f.type = "confirm_subscription" /\ DenotesOwnKey(f.identifier)

\* a data frame of the own subscription with a non-dropped packet
CarriesLive(f) == LiveMessages(CarriedPackets(f)) # <<>>

(***************************************************************************)
(* C3 as stated: the adapter streams only after a confirm_subscription     *)
(* frame for its own key; a data frame that arrives before such a          *)
(* confirmation produces no Message. (Fails: readLoop has no               *)
(* awaiting-confirmation state.)                                           *)
(***************************************************************************)
C3_NoMessageBeforeConfirmation ==
    emitted # <<>> => \E i \in 1..Len(framesRead) : OwnConfirmation(framesRead[i])

(***************************************************************************)
(* C3 amended: the adapter streams as soon as the subscribe command has    *)
(* been sent. No Message is produced before the welcome frame was read and *)
(* the subscribe command written; after that a data frame of the own       *)
(* subscription with a non-dropped packet produces its Message although no *)
(* confirmation preceded it.                                               *)
(***************************************************************************)
C3_StreamsOnceSubscribed ==
    /\ emitted # <<>> =>
           /\ firstFrame # NoValue /\ firstFrame # ReadFailure
           /\ firstFrame.type = "welcome"
           /\ SubscribeCommand \in Range(outbound)
    /\ LoopBetweenFrames =>
           \A i \in 1..Len(framesRead) :
               (/\ CarriesLive(framesRead[i])
                /\ \A j \in 1..(i - 1) : ~OwnConfirmation(framesRead[j]))
               => \E k \in 1..Len(emitted) :
                      emitted[k] = LiveMessages(CarriedPackets(framesRead[i]))[1]

\* a Message went out and no confirmation was ever read
C3_Witness ==
    /\ emitted # <<>>
    /\ LoopBetweenFrames
    /\ \A i \in 1..Len(framesRead) : framesRead[i].type # "confirm_subscription"

(***************************************************************************)
(* C4 as stated: while streaming, every frame whose identifier does not    *)
(* decode to the own subscription key, whatever its type, is discarded: no *)
(* Message, and the adapter does not end with an error. (Fails for the     *)
(* types reject_subscription and disconnect.)                              *)
(***************************************************************************)
C4_ForeignFrameDiscarded ==
    [][(FrameStep /\ ~DenotesOwnKey(NewFrame.identifier))
          => (/\ emitted' = emitted
              /\ messages' = messages
              /\ pending' = <<>>
              /\ loopPc' = "read"
              /\ readErr' = readErr)]_vars

(***************************************************************************)
(* C4 amended: while streaming, every frame whose identifier does not      *)
(* decode to the own subscription key and whose type is neither            *)
(* reject_subscription nor disconnect is discarded: no Message, and the    *)
(* adapter does not end with an error.                                     *)
(***************************************************************************)
C4_ForeignDataFrameDiscarded ==
    [][(/\ FrameStep
        /\ ~DenotesOwnKey(NewFrame.identifier)
        /\ NewFrame.type \notin FatalTypes)
          => (/\ emitted' = emitted
              /\ messages' = messages
              /\ pending' = <<>>
              /\ loopPc' = "read"
              /\ readErr' = readErr)]_vars

\* frames of another subscription went by and the adapter still streams
C4_Witness ==
    /\ framesRead = <<F_foreign, F_foreignTyped, F_new>>
    /\ loopPc = "read"
    /\ emitted = <<MessageOf(P3)>>

\* the error a fatal frame stands for
CauseOf(f) ==
    IF f.type = "reject_subscription"
    THEN [kind |-> "rejected", channel |-> OwnSlug]
    ELSE [kind |-> "disconnected", message |-> f.message]

FatalInLoop == \E i \in 1..Len(framesRead) : framesRead[i].type \in FatalTypes
FatalFirst ==
    firstFrame # NoValue /\ firstFrame # ReadFailure /\ firstFrame.type \in FatalTypes

(***************************************************************************)
(* C5 as stated: after a reject_subscription or disconnect frame Connect   *)
(* returns a non-nil error naming the channel (rejection) or carrying the  *)
(* server's message (disconnect). Stated without cancellation. (Fails when *)
(* the frame is the first one read: Connect returns "expected welcome".)   *)
(***************************************************************************)
C5_FatalFrameNamesCause ==
    (connPc = "returned" /\ ~ctxDone) =>
        /\ FatalFirst => connectResult = CauseOf(firstFrame)
        /\ FatalInLoop => connectResult = CauseOf(framesRead[Len(framesRead)])

(***************************************************************************)
(* C5 amended: a reject_subscription or disconnect frame read by the read  *)
(* loop is the last frame it reads; the loop returns the error naming the  *)
(* channel or carrying the server's message, Connect returns that error or,*)
(* if cancellation won its select, the cancellation error; no Message is   *)
(* emitted afterwards. Such a frame read in place of the welcome makes     *)
(* Connect return the "expected welcome" error. Connect never returns nil. *)
(***************************************************************************)
C5_FatalFrameEndsAdapter ==
    /\ [](/\ connPc = "returned" => connectResult # NoValue
          /\ FatalFirst =>
                 /\ connPc = "returned"
                 /\ connectResult = [kind |-> "expectedWelcome", got |-> firstFrame.type]
                 /\ emitted = <<>>
          /\ FatalInLoop =>
                 LET f == framesRead[Len(framesRead)]
                 IN /\ f.type \in FatalTypes
                    /\ loopPc = "done"
                    /\ readErr = CauseOf(f) \/ connectResult = CauseOf(f)
                    /\ connPc = "returned" => connectResult \in {CauseOf(f), ErrCanceled})
    /\ [][FatalInLoop => (emitted' = emitted /\ framesRead' = framesRead)]_vars

\* a rejection ended an adapter that had streamed
C5_Witness ==
    /\ FatalInLoop
    /\ connPc = "returned"
    /\ connectResult = [kind |-> "rejected", channel |-> OwnSlug]
    /\ emitted # <<>>

(***************************************************************************)
(* C6: if the first frame read is not of type welcome, or the read fails   *)
(* or times out, Connect returns an error without sending the subscribe    *)
(* command and without emitting any Message.                               *)
(***************************************************************************)
C6_BadWelcomeEndsConnect ==
    (firstFrame # NoValue /\ (firstFrame = ReadFailure \/ firstFrame.type # "welcome"))
        => /\ connPc = "returned"
           /\ connectResult \notin {NoValue, ErrCanceled}
           /\ connectResult.kind \in {"readWelcome", "expectedWelcome"}
           /\ outbound = <<>>
           /\ loopPc = "idle"
           /\ framesRead = <<>>
           /\ emitted = <<>>
           /\ messages = <<>>

C6_Witness ==
    /\ firstFrame = F_disconnect
    /\ connPc = "returned"
    /\ connectResult = [kind |-> "expectedWelcome", got |-> "disconnect"]

\* upper-case form of a character of the model's alphabet
UpperOf(c) ==
    IF c = "x" THEN "X" ELSE IF c = "r" THEN "R" ELSE IF c = "t" THEN "T"
    ELSE IF c = "h" THEN "H" ELSE IF c = "i" THEN "I" ELSE c

\* the two names are equal ignoring case
SameIgnoringCase(s, t) ==
    /\ Len(s) = Len(t)
    /\ \A i \in 1..Len(s) : UpperOf(s[i]) = UpperOf(t[i])

\* the content starts with "[TTV] " or "[YT_] ": tag, then one space
StartsWithBridgeTag(content) ==
    /\ Len(content) >= 6
    /\ content[1] = "[" /\ content[5] = "]" /\ content[6] = " "
    /\ <<content[2], content[3], content[4]>> \in {<<"T", "T", "V">>, <<"Y", "T", "_">>}

\* a self-echo: socket source, relay alias in any case, bridge tag in front
SelfEcho(msg, alias) ==
    /\ msg.Platform = HackrTV
    /\ SameIgnoringCase(msg.Username, alias)
    /\ StartsWithBridgeTag(msg.Content)

\* every message of a sequence satisfies P
NoSelfEchoIn(seq) == \A i \in 1..Len(seq) : ~SelfEcho(seq[i], RelayAlias)

(***************************************************************************)
(* C7: in bridge mode every message judged a self-echo is dropped          *)
(* entirely: no self-echo is ever put on the display channel or on the     *)
(* bridge channel, hence none is printed or POSTed.                        *)
(***************************************************************************)
C7_EchoesDroppedEntirely ==
    bridge =>
        /\ NoSelfEchoIn(displayed) /\ NoSelfEchoIn(printerCh) /\ NoSelfEchoIn(printed)
        /\ NoSelfEchoIn(bridged) /\ NoSelfEchoIn(uplinkCh) /\ NoSelfEchoIn(posted)
        /\ dispPc \in {"print", "offer"} => ~SelfEcho(dispMsg, RelayAlias)

\* echoes were received and dropped around a displayed socket message
C7_Witness ==
    /\ bridge
    /\ received = <<M_echoTTV, M_htv, M_echoTTV>>
    /\ displayed = <<M_htv>>
    /\ dispPc = "recv"

(***************************************************************************)
(* C8: isBridgeEcho(msg, alias) is true if and only if msg.Platform is the *)
(* socket source, msg.Username equals alias ignoring case, and msg.Content *)
(* starts with "[TTV] " or "[YT_] " (tag plus one space).                  *)
(***************************************************************************)
C8_IsBridgeEchoIff ==
    echoOut # NoValue =>
        (echoOut.value <=> SelfEcho(echoIn.msg, echoIn.relayAlias))

\* judged an echo although the username differs from the alias in case
C8_Witness ==
    /\ echoOut = [value |-> TRUE]
    /\ echoIn.msg.Username = <<"x", "X">>
    /\ echoIn.relayAlias = <<"X", "x">>
    /\ echoIn.msg.Content = TagYT \o <<"h", "i">>

RECURSIVE IsSubsequence(_, _)
IsSubsequence(s, t) ==
    IF s = <<>> THEN TRUE
    ELSE IF t = <<>> THEN FALSE
    ELSE IF Head(s) = Head(t) THEN IsSubsequence(Tail(s), Tail(t))
    ELSE IsSubsequence(s, Tail(t))

NotFromSocket(m) == m.Platform # HackrTV
NoSocketMessageIn(seq) == \A i \in 1..Len(seq) : seq[i].Platform # HackrTV

(***************************************************************************)
(* C9: no message whose platform is the socket source is ever put on the   *)
(* bridge channel or POSTed by the Bridge Sender; the messages put on the  *)
(* bridge channel are an order-preserving subsequence of the non-socket    *)
(* messages the dispatcher put on the display channel.                     *)
(***************************************************************************)
C9_BridgeCarriesNoSocketMessage ==
    /\ NoSocketMessageIn(bridged)
    /\ NoSocketMessageIn(uplinkCh)
    /\ NoSocketMessageIn(posted)
    /\ upMsg # NoValue => upMsg.Platform # HackrTV
    /\ IsSubsequence(bridged, SelectSeq(displayed, NotFromSocket))
    /\ IsSubsequence(posted, bridged)

\* socket messages were displayed, two others bridged in order and POSTed
C9_Witness ==
    /\ displayed = <<M_ttvTagged, M_htv, M_yt>>
    /\ bridged = <<M_ttvTagged, M_yt>>
    /\ posted = <<M_ttvTagged, M_yt>>

NotSuppressed(m) == ~(bridge /\ SelfEcho(m, RelayAlias))

(***************************************************************************)
(* C10: every message the dispatcher receives that is not a suppressed     *)
(* self-echo is put on the display channel exactly once and in the order   *)
(* received, whether the bridge channel is full, empty or without a        *)
(* consumer: the displayed messages, followed by the one the dispatcher is *)
(* about to display, are the received messages without the echoes.         *)
(***************************************************************************)
C10_DisplayGetsEveryMessageOnce ==
    displayed \o (IF dispPc = "print" THEN <<dispMsg>> ELSE <<>>)
        = SelectSeq(received, NotSuppressed)

\* the Bridge Sender has stopped, its channel is full, an offer was dropped,
\* and the display still got every message
C10_Witness ==
    /\ bridge
    /\ upPc = "done"
    /\ Len(uplinkCh) = ChanCap
    /\ dropped # <<>>
    /\ Len(displayed) = MaxMsgs
    /\ received = <<M_ttvTagged, M_yt, M_ttvTagged>>

(***************************************************************************)
(* Vocabulary of the properties of the dispatcher's shutdown and of the    *)
(* Bridge Sender                                                           *)
(***************************************************************************)
\* the messages of the dropped offers
RECURSIVE DroppedMessages(_)
DroppedMessages(drops) ==
    IF drops = <<>> THEN <<>>
    ELSE <<Head(drops).msg>> \o DroppedMessages(Tail(drops))

\* the messages the Bridge Sender has taken off the bridge channel
Taken == SubSeq(bridged, 1, Len(bridged) - Len(uplinkCh))
\* the message it has taken and not POSTed yet
InHand == IF upPc = "send" THEN <<upMsg>> ELSE <<>>

IsSuffix(t, seq) ==
    Len(t) <= Len(seq) /\ SubSeq(seq, Len(seq) - Len(t) + 1, Len(seq)) = t

\* a step of the Bridge Sender
SenderStep == upPc' # upPc
\* how many steps of its own the Bridge Sender is from returning, at most,
\* once the cancellation signal has fired
StepsToReturn(pc) ==
    IF pc = "send" THEN 1
    ELSE IF pc = "wait" THEN 2
    ELSE IF pc = "cooldown" THEN 3
    ELSE IF pc = "inflight" THEN 4
    ELSE 0

(***************************************************************************)
(* C11: the dispatcher never blocks on the bridge channel. Whenever it     *)
(* stands at the offer, the offer can be taken at once, wherever the       *)
(* Bridge Sender is (waiting, sending, cooling down or returned); and an   *)
(* offer made while the buffer is full drops the message, leaves the       *)
(* channel as it is and takes the dispatcher back to the receive.          *)
(***************************************************************************)
C11_OfferNeverBlocks ==
    /\ [](dispPc = "offer" => ENABLED DispOffer)
    /\ [][(dispPc = "offer" /\ dispPc' # "offer" /\ Len(uplinkCh) >= ChanCap) =>
            /\ DroppedMessages(dropped') = Append(DroppedMessages(dropped), dispMsg)
            /\ uplinkCh' = uplinkCh
            /\ bridged' = bridged
            /\ dispPc' = "recv"]_vars

\* the third message was dropped while the Bridge Sender was cooling down
\* with the second still in the buffer, and the dispatcher is back at the
\* receive
C11_Witness ==
    /\ Len(received) = 3
    /\ dropped = <<[msg |-> received[3], sender |-> "cooldown"]>>
    /\ uplinkCh = <<received[2]>>
    /\ dispPc = "recv"

(***************************************************************************)
(* C12 as stated: once the shared channel is closed the dispatcher         *)
(* forwards what is buffered and closes the sink channels, and the display *)
(* sink's Run and the Bridge Sender's Run each return with their channel   *)
(* drained.                                                                *)
(***************************************************************************)
C12_ConsumersDrainTheirChannels ==
    /\ dispPc = "done" =>
          (messagesClosed /\ messages = <<>> /\ IsSuffix(closedWith, received))
    /\ (dispPc = "done" /\ printerPc = "done") => printerCh = <<>>
    /\ (dispPc = "done" /\ upPc = "done") => uplinkCh = <<>>

(***************************************************************************)
(* C12, amended: the dispatcher closes the sink channels only after it has *)
(* received every message the shared channel held when it was closed, and  *)
(* has displayed and offered them like any other; the display sink's Run   *)
(* returns only with its channel closed and drained, everything displayed  *)
(* printed; the Bridge Sender's Run returns with its channel closed and    *)
(* drained and everything bridged POSTed unless the cancellation signal    *)
(* has fired, in which case it may leave messages in the bridge channel.   *)
(***************************************************************************)
C12_ShutdownDrainsUnlessCanceled ==
    /\ (printerClosed \/ uplinkClosed) => dispPc = "done"
    /\ dispPc = "done" =>
          /\ messagesClosed /\ messages = <<>>
          /\ IsSuffix(closedWith, received)
          /\ displayed = SelectSeq(received, NotSuppressed)
          /\ printerClosed
          /\ uplinkClosed = bridge
    /\ printerPc = "done" =>
          /\ printerClosed /\ printerCh = <<>>
          /\ printed = displayed
    /\ upPc = "done" =>
          \/ ctxDone
          \/ /\ uplinkClosed /\ uplinkCh = <<>>
             /\ posted = bridged

\* the channel was closed with a message in it; the dispatcher forwarded it,
\* closed both sinks, and both consumers drained their channel and returned
C12_Witness ==
    /\ bridge
    /\ ~ctxDone
    /\ closedWith = <<M_yt>>
    /\ received = <<M_htv, M_ttvTagged, M_yt>>
    /\ dispPc = "done"
    /\ printerPc = "done"
    /\ upPc = "done"
    /\ printed = received
    /\ posted = <<M_ttvTagged, M_yt>>

(***************************************************************************)
(* C13: the Bridge Sender issues at most one POST for each message it      *)
(* takes from the bridge channel, whatever the answer: the POSTs, followed *)
(* by the message in hand, are the messages taken, each once and in order  *)
(* (the last one taken is not POSTed when cancellation stops its Send).    *)
(* After a 429 the next POST is for the next message of the channel.       *)
(***************************************************************************)
C13_OnePostPerMessage ==
    /\ \/ posted \o InHand = Taken
       \/ /\ ctxDone
          /\ upPc = "done"
          /\ Taken # <<>>
          /\ posted = SubSeq(Taken, 1, Len(Taken) - 1)
    /\ upPc \in {"inflight", "cooldown"} => posted # <<>>

\* the first POST was answered 429; after the cool-down the next POST is
\* under way, for the second, different message
C13_Witness ==
    /\ lastStatus = 429
    /\ upPc = "inflight"
    /\ bridged = <<M_ttvTagged, M_yt>>
    /\ posted = <<M_ttvTagged, M_yt>>

(***************************************************************************)
(* C14: no HTTP status ends the Bridge Sender. A response that arrives     *)
(* before cancellation takes Run to the next message (201, any other       *)
(* status) or to the cool-down (429), never to its return; no POST is      *)
(* issued during the cool-down, which ends in the wait for the next        *)
(* message; and Run has returned only if the bridge channel is closed and  *)
(* drained or the cancellation signal has fired.                           *)
(***************************************************************************)
C14_NoStatusEndsSender ==
    /\ [](upPc = "done" => (ctxDone \/ (uplinkClosed /\ uplinkCh = <<>>)))
    /\ [][(upPc = "inflight" /\ SenderStep /\ ~ctxDone) =>
            /\ upPc' \in {"wait", "cooldown"}
            /\ upPc' = "cooldown" <=> lastStatus' = 429]_vars
    /\ [][upPc = "cooldown" =>
            /\ posted' = posted
            /\ SenderStep => (upPc' = "wait" \/ (ctxDone /\ upPc' = "done"))]_vars

\* a POST was answered 422 and Run went on: the next message is POSTed
C14_Witness ==
    /\ lastStatus = 422
    /\ ~ctxDone
    /\ upPc = "inflight"
    /\ posted = <<M_yt, M_ttvTagged>>

(***************************************************************************)
(* C15: once the cancellation signal has fired the Bridge Sender issues no *)
(* POST any more, and from the cool-down or the wait for a message it      *)
(* returns within a bounded number of its own steps: it is never blocked,  *)
(* and each of its steps takes it closer to the return.                    *)
(***************************************************************************)
C15_CanceledSenderReturns ==
    /\ [][ctxDone => posted' = posted]_vars
    /\ []((ctxDone /\ upPc \in {"cooldown", "wait"}) => ENABLED UplinkCanceled)
    /\ [][(ctxDone /\ SenderStep) =>
            StepsToReturn(upPc') < StepsToReturn(upPc)]_vars

\* cancellation came during the cool-down: Run has returned, the message
\* waiting in the bridge channel was never POSTed
C15_Witness ==
    /\ ctxDone
    /\ upPc = "done"
    /\ lastStatus = 429
    /\ Len(posted) = 1
    /\ uplinkCh # <<>>
    /\ ~uplinkClosed

(***************************************************************************)
(* Vocabulary of the properties of FormatContent and Send                  *)
(***************************************************************************)
Min(a, b) == IF a < b THEN a ELSE b

\* the three-letter tag of a platform
TagText(pf) ==
    IF pf = Twitch THEN <<"T", "T", "V">>
    ELSE IF pf = YouTube THEN <<"Y", "T", "_">>
    ELSE IF pf = HackrTV THEN <<"H", "T", "V">>
    ELSE <<"?", "?", "?">>

\* the string "[<tag>] <username>: <body>"
Formatted(msg) ==
    <<"[">> \o TagText(msg.Platform) \o <<"]", " ">> \o msg.Username
        \o <<":", " ">> \o msg.Content

\* the status codes as they are written in decimal
StatusText ==
    (100 :> <<"1", "0", "0">>) @@
    (200 :> <<"2", "0", "0">>) @@
    (201 :> <<"2", "0", "1">>) @@
    (202 :> <<"2", "0", "2">>) @@
    (204 :> <<"2", "0", "4">>) @@
    (301 :> <<"3", "0", "1">>) @@
    (400 :> <<"4", "0", "0">>) @@
    (401 :> <<"4", "0", "1">>) @@
    (404 :> <<"4", "0", "4">>) @@
    (422 :> <<"4", "2", "2">>) @@
    (429 :> <<"4", "2", "9">>) @@
    (500 :> <<"5", "0", "0">>) @@
    (503 :> <<"5", "0", "3">>)

(***************************************************************************)
(* C16: for every message FormatContent returns the first min(512, n)      *)
(* bytes of the n-byte string "[<tag>] <username>: <body>": never more     *)
(* than 512 bytes, exactly 512 when the formatted string is longer, and    *)
(* the formatted string itself otherwise.                                  *)
(***************************************************************************)
C16_FormatContentCutsAt512 ==
    (callIn.fn = "FormatContent" /\ callOut # NoValue) =>
        LET full == Formatted(callIn.arg)
            n == Len(full)
            out == callOut.value
        IN /\ out = SubSeq(full, 1, Min(512, n))
           /\ Len(out) <= 512
           /\ n > 512 => Len(out) = 512
           /\ n <= 512 => out = full

\* a formatted string of 514 bytes was cut to 512, between the two bytes of
\* one character
C16_Witness ==
    /\ callIn.fn = "FormatContent"
    /\ callOut # NoValue
    /\ Len(Formatted(callIn.arg)) = 514
    /\ Len(callOut.value) = 512
    /\ callOut.value[512] = "c3"
    /\ callOut.value[1] = "["

(***************************************************************************)
(* C17: Send returns nil exactly when the response status is 201,          *)
(* ErrRateLimit exactly when it is 429, and for every other status an      *)
(* error that is neither and whose text contains the status code in        *)
(* decimal. Without a response it returns an error, never nil.             *)
(***************************************************************************)
C17_SendResultByStatus ==
    (callIn.fn = "Send" /\ callOut # NoValue) =>
        LET st == callIn.arg.status
            r == callOut.value
        IN IF callIn.arg.responded
           THEN /\ r.kind = "nil" <=> st = 201
                /\ r = ErrRateLimit <=> st = 429
                /\ st \notin {201, 429} =>
                      /\ r.kind = "error"
                      /\ r.text # ErrRateLimit.text
                      /\ Contains(r.text, StatusText[st])
           ELSE r.kind = "error" /\ r # ErrRateLimit

\* a 422 came back as an error whose text ends in 422
C17_Witness ==
    /\ callIn.fn = "Send"
    /\ callIn.arg.responded
    /\ callIn.arg.status = 422
    /\ callOut # NoValue
    /\ callOut.value.kind = "error"
    /\ callOut.value.text = <<"uplink: unexpected status ", "4", "2", "2">>

(***************************************************************************)
(* C18: deriveBaseURL maps scheme ws to http and wss to https, keeps host  *)
(* and port, and discards path, query and fragment: for a URL              *)
(* scheme://host[:port][/path][?query][#fragment] with scheme ws or wss    *)
(* the client's base URL is the mapped scheme, "://", the host and the     *)
(* port, and nothing else. For every other scheme and every text that is   *)
(* no URL, NewClient returns an error and no client.                       *)
(***************************************************************************)
MappedScheme(scheme) == IF scheme = "ws" THEN "http" ELSE "https"
C18_BaseURLIsSchemeHostPort ==
    (callIn.fn = "NewClient" /\ callOut # NoValue) =>
        LET a == callIn.arg
            p == a.parts
            r == callOut.value
        IN IF a.form = "url" /\ ToLower(p.scheme) \in {"ws", "wss"}
           THEN /\ r.err.kind = "nil"
                /\ r.client # NoValue
                /\ r.client.baseURL =
                      <<MappedScheme(ToLower(p.scheme)), ":", "//", p.host>>
                          \o (IF p.port = "" THEN <<>> ELSE <<":", p.port>>)
           ELSE IF a.form \in {"url", "other"}
           THEN r.client = NoValue /\ r.err.kind = "error"
           ELSE TRUE

(***************************************************************************)
(* C19: matchesSubscription returns true for every identifier text that    *)
(* is an object giving channel = "LiveChatChannel" and chat_channel = the  *)
(* configured slug, whatever the order of the keys, the whitespace around  *)
(* the tokens and the other members; and false for every malformed text,   *)
(* the empty string, and every identifier of another channel class or      *)
(* slug.                                                                   *)
(***************************************************************************)
C19_MatchesDecodedKey ==
    (callIn.fn = "matchesSubscription" /\ callOut # NoValue) =>
        LET d == callIn.arg.shape
        IN callOut.value =
             (/\ d.flaw = "none"
              /\ d.class = "LiveChatChannel"
              /\ d.slug = OwnSlug)

\* the keys reversed, spaces everywhere and a third member: a match
C19_Witness ==
    /\ callIn.fn = "matchesSubscription"
    /\ callIn.arg.shape.order = "slug first"
    /\ callIn.arg.shape.spaced
    /\ callIn.arg.shape.extra = "number"
    /\ callIn.arg.shape.keys = "lower"
    /\ callIn.arg.shape.flaw = "none"
    /\ Len(callIn.arg.text) = 27
    /\ callOut = [value |-> TRUE]

(***************************************************************************)
(* C20: if metadata resolution fails (the request fails, the status is not *)
(* 200, the body does not decode, there is no item, or the first item's    *)
(* active chat id is empty), the polling adapter's Connect returns an      *)
(* error at once: it issues no messages fetch and emits no Message.        *)
(***************************************************************************)
\* the metadata response names an active chat session
NamesChat(resp) ==
    /\ resp.responded
    /\ resp.status = 200
    /\ resp.decodes
    /\ resp.ids # <<>>
    /\ resp.ids[1] # ""

C20_ResolutionFailureIsFatal ==
    (videoResp # NoValue /\ ~NamesChat(videoResp)) =>
        /\ pollPc = "returned"
        /\ pollResult # NoValue
        /\ pollResult.kind = "error"
        /\ pollResult.text[1] = "failed to get live chat ID: "
        /\ \A i \in 1..Len(requests) : requests[i].api # "messages"
        /\ fetches = 0
        /\ pollEmitted = <<>>
        /\ messages = <<>>

\* the video exists, its first item has no active chat: Connect has returned
\* after the one metadata request
C20_Witness ==
    /\ videoResp = VideoResponse(200, TRUE, <<"", "chat2">>)
    /\ pollPc = "returned"
    /\ requests = <<VideosRequest>>
    /\ pollResult = ErrLiveChatID(ErrNoLiveChat)

(***************************************************************************)
(* C21: after metadata resolution has succeeded, an error from any         *)
(* messages fetch, the first as well as every later one, is non-fatal: the *)
(* polling adapter does not return and fetches again at the next tick.     *)
(* As stated this fails for the first fetch, whose error Connect returns.  *)
(***************************************************************************)
\* the messages request ended without a response that can be used
FetchFailed(resp) == ~resp.responded \/ resp.status # 200 \/ ~resp.decodes

\* this step is a call of fetchMessages that ended with an error
FetchStepFailed ==
    /\ Len(chatLog') = Len(chatLog) + 1
    /\ FetchFailed(chatLog'[Len(chatLog')].resp)

C21_NoFetchErrorIsFatal ==
    [][FetchStepFailed => (pollPc' = "wait" /\ pollResult' = NoValue)]_vars

(***************************************************************************)
(* C21, amended: an error from the first messages fetch makes Connect      *)
(* return that error (not wrapped as a resolution failure) and is not      *)
(* printed; an error from every later fetch is printed and is non-fatal:   *)
(* Connect is back at its wait, where the next tick starts another fetch.  *)
(***************************************************************************)
C21_OnlyFirstFetchErrorIsFatal ==
    /\ [][FetchStepFailed =>
            IF chatLog = <<>>
            THEN /\ pollPc' = "returned"
                 /\ pollResult' # NoValue
                 /\ pollResult'.kind = "error"
                 /\ pollResult'.text[1] # "failed to get live chat ID: "
                 /\ pollLogged' = pollLogged
            ELSE /\ pollPc' = "wait"
                 /\ pollResult' = NoValue
                 /\ Len(pollLogged') = Len(pollLogged) + 1]_vars
    /\ [](pollPc = "wait" /\ fetches < MaxFetches => ENABLED PollTick)
    /\ [](pollPc = "tick" => ENABLED PollFetch)

\* the second fetch failed, was printed, and a third fetch has been made
C21_Witness ==
    /\ Len(chatLog) = 3
    /\ ~FetchFailed(chatLog[1].resp)
    /\ FetchFailed(chatLog[2].resp)
    /\ Len(pollLogged) >= 1
    /\ pollResult = NoValue

(***************************************************************************)
(* C22: whenever a successful fetch response carries a positive            *)
(* server-suggested interval, the wait before the next fetch uses that     *)
(* interval as its period; when a response carries none, the period        *)
(* adopted before is kept; before any suggestion the period is the         *)
(* 3-second default.                                                       *)
(***************************************************************************)
\* the period the responses so far have suggested
RECURSIVE AdoptedPeriod(_)
AdoptedPeriod(log) ==
    IF log = <<>> THEN DefaultPollingRate
    ELSE LET last == log[Len(log)].resp
         IN IF ~FetchFailed(last) /\ last.pollingIntervalMillis > 0
            THEN last.pollingIntervalMillis
            ELSE AdoptedPeriod(SubSeq(log, 1, Len(log) - 1))

C22_WaitUsesAdoptedPeriod ==
    pollPc = "wait" => tickerPeriod = AdoptedPeriod(chatLog)

(***************************************************************************)
(* C23: the first messages fetch of a polling adapter carries no page      *)
(* cursor, and every later fetch carries exactly the next-cursor returned  *)
(* by the most recent successful fetch of that adapter.                    *)
(***************************************************************************)
\* the next-cursor of the latest successful fetch in the log ("": none)
RECURSIVE LastCursor(_)
LastCursor(log) ==
    IF log = <<>> THEN ""
    ELSE LET last == log[Len(log)].resp
         IN IF ~FetchFailed(last)
            THEN last.nextPageToken
            ELSE LastCursor(SubSeq(log, 1, Len(log) - 1))

\* the messages requests issued, in order
MessagesRequests == SelectSeq(requests, LAMBDA r : r.api = "messages")

C23_FetchCarriesLastCursor ==
    /\ \A i \in 1..Len(chatLog) :
           chatLog[i].pageToken = LastCursor(SubSeq(chatLog, 1, i - 1))
    /\ ~ctxDone =>
           /\ Len(MessagesRequests) = Len(chatLog)
           /\ \A i \in 1..Len(chatLog) :
                  MessagesRequests[i].pageToken = chatLog[i].pageToken

\* the cursor of the first fetch is carried by the third, the second having
\* failed
C23_Witness ==
    /\ Len(chatLog) = 3
    /\ chatLog[1].pageToken = ""
    /\ ~FetchFailed(chatLog[1].resp) /\ chatLog[1].resp.nextPageToken = "t1"
    /\ FetchFailed(chatLog[2].resp) /\ chatLog[2].pageToken = "t1"
    /\ chatLog[3].pageToken = "t1"
    /\ ~FetchFailed(chatLog[3].resp) /\ chatLog[3].resp.nextPageToken = "t2"
    /\ pageToken = "t2"

(***************************************************************************)
(* C25: parsePrivMsg accepts a line iff it contains PRIVMSG, starts with   *)
(* the leading ':' marker, has a '!' terminating the sender, and has a     *)
(* " :" after the PRIVMSG token; on acceptance the username is the text    *)
(* between the leading marker and the first '!', and the content is all    *)
(* the text following the first " :" that occurs after the PRIVMSG token   *)
(* (later colons belong to the content).                                   *)
(***************************************************************************)
\* the text of the line after its first PRIVMSG word
AfterToken(line) ==
    SubSeq(line, stringsIndex(line, <<"PRIVMSG">>) + 1, Len(line))

\* the line is one the statement accepts
WellFormedPrivMsg(line) ==
    /\ Contains(line, <<"PRIVMSG">>)
    /\ HasPrefix(line, <<":">>)
    /\ Contains(Tail(line), <<"!">>)
    /\ Contains(AfterToken(line), <<" ", ":">>)

C25_ParsePrivMsgAcceptsWellFormed ==
    (callIn # NoValue /\ callIn.fn = "parsePrivMsg" /\ callOut # NoValue) =>
        LET line == callIn.arg
            out == callOut.value
        IN /\ out.ok <=> WellFormedPrivMsg(line)
           /\ out.ok =>
                /\ out.msg.Username
                        = SubSeq(line, 2, stringsIndex(Tail(line), <<"!">>))
                /\ out.msg.Content
                        = SubSeq(AfterToken(line),
                                 stringsIndex(AfterToken(line), <<" ", ":">>) + 2,
                                 Len(AfterToken(line)))

(***************************************************************************)
(* C24: for every line the IRC adapter reads that begins with PING, it     *)
(* writes PONG followed by the same trailing text and emits no Message,    *)
(* even if the line also contains PRIVMSG.                                 *)
(***************************************************************************)
\* this step is a read that returned a line beginning with PING
ReadsPing ==
    /\ Len(ircReads') = Len(ircReads) + 1
    /\ ircReads'[Len(ircReads')].kind = "line"
    /\ HasPrefix(ircReads'[Len(ircReads')].raw, <<"PING">>)

\* answer is PONG, then the text that follows PING in raw up to the white
\* space that ends the line, then the line ending
AnswersPing(answer, raw) ==
    \E n \in 0..(Len(raw) - 1) :
        /\ answer = <<"PONG">> \o SubSeq(raw, 2, n + 1) \o CRLF
        /\ \A i \in (n + 2)..Len(raw) : raw[i] \in WhiteSpace
        /\ n > 0 => raw[n + 1] \notin WhiteSpace

C24_PingIsAnsweredNotEmitted ==
    [][ReadsPing =>
        /\ Len(ircWritten') = Len(ircWritten) + 1
        /\ AnswersPing(ircWritten'[Len(ircWritten')], ircReads'[Len(ircReads')].raw)
        /\ ircPc' = "select"
        /\ ircMsg' = NoValue
        /\ ircEmitted' = ircEmitted
        /\ messages' = messages]_vars

\* a PING line that also holds PRIVMSG was read and answered, nothing was
\* emitted
C24_Witness ==
    /\ ircReads = <<ReadLine(L_pingPrivMsg \o CRLF)>>
    /\ ircWritten = Append(Registration,
                           <<"PONG">> \o Tail(L_pingPrivMsg) \o CRLF)
    /\ ircEmitted = <<>>
    /\ ircPc = "select"

(***************************************************************************)
(* C26: in the IRC adapter a read timeout never terminates Connect (the    *)
(* read is retried), every non-timeout read error makes Connect return a   *)
(* non-nil read error, and once the cancellation signal has fired Connect  *)
(* returns the cancellation error within one read-deadline iteration.      *)
(* As stated the last part fails when the read under way at the signal     *)
(* ends with a non-timeout error.                                          *)
(***************************************************************************)
\* this step is a read that ended the way `kind` says
ReadEnds(kind) ==
    /\ Len(ircReads') = Len(ircReads) + 1
    /\ ircReads'[Len(ircReads')].kind = kind

\* this step is the return of a Connect that has entered its read loop
LoopReturns ==
    ircPc \in {"select", "read", "send"} /\ ircPc' = "returned"

TimeoutIsRetried ==
    [][ReadEnds("timeout") => (ircPc' = "select" /\ ircResult' = NoValue)]_vars

ReadErrorIsReturned ==
    [][ReadEnds("error") =>
        /\ ircPc' = "returned"
        /\ ircResult' # NoValue
        /\ ircResult'.kind = "error"
        /\ ircResult'.text[1] = "read error: "]_vars

C26_CancellationErrorWithinOneRead ==
    /\ TimeoutIsRetried
    /\ ReadErrorIsReturned
    /\ [](ircLateReads <= 1)
    /\ [][(ctxDone /\ LoopReturns) => ircResult' = ErrCanceled]_vars

(***************************************************************************)
(* C26, amended: a read timeout never terminates Connect, every            *)
(* non-timeout read error makes Connect return a read error, and once the  *)
(* cancellation signal has fired no new read begins and at most the read   *)
(* under way ends: Connect then returns the cancellation error at its next *)
(* select, unless that read ended with a non-timeout error, which Connect  *)
(* returns as a read error; a message parsed from that read is sent first. *)
(***************************************************************************)
C26_CancellationOrLateReadError ==
    /\ TimeoutIsRetried
    /\ ReadErrorIsReturned
    /\ [](ircLateReads <= 1)
    /\ []((ctxDone /\ ircPc = "select") =>
            (ENABLED IrcSelectCanceled /\ ~ENABLED IrcSelectDefault))
    /\ [][(ctxDone /\ LoopReturns) =>
            \/ ircPc = "select" /\ ircResult' = ErrCanceled
            \/ ReadEnds("error") /\ ircResult' = ErrIrcRead]_vars

\* two timeouts, the second after the cancellation: Connect went on after
\* the first and has returned the cancellation error after the second
C26_Witness ==
    /\ ircReads = <<ReadTimeout, ReadTimeout>>
    /\ ircLateReads = 1
    /\ ctxDone
    /\ ircPc = "returned"
    /\ ircResult = ErrCanceled

(***************************************************************************)
(* C27: ingestion never drops and never reorders within a source: for each *)
(* source adapter, the messages it sends on the shared channel reach the   *)
(* display channel in the order the adapter produced them (minus           *)
(* suppressed echoes), for every interleaving of adapters and even when    *)
(* the shared channel is full, in which case the adapter blocks at its     *)
(* send.                                                                   *)
(***************************************************************************)
\* the messages of the adapter src in a sequence (an adapter sends the
\* messages of its own platform)
From(src, seq) == SelectSeq(seq, LAMBDA m : m.Platform = SourcePlatform(src))
\* what the adapter src sent, in the order it sent it, without the echoes
\* the dispatcher suppresses
ProducedBy(src) == SelectSeq(From(src, sent), LAMBDA m : ~Suppressed(m))
\* what reached the display channel from the adapter src
DisplayedFrom(src) == From(src, displayed)
\* messages of src on their way: in the shared channel or in the
\* dispatcher's hand before its send to the display channel
OnTheWayFrom(src) ==
    SelectSeq(From(src, (IF dispPc = "print" THEN <<dispMsg>> ELSE <<>>) \o messages),
              LAMBDA m : ~Suppressed(m))

PollOwnStep == PollResolve \/ PollFetch \/ PollSend \/ PollCanceled

C28_CanceledAdapterNeedsNoReceiver ==
    (ctxDone /\ pollPc # "returned") => ENABLED PollOwnStep

(***************************************************************************)
(* C29: once the cancellation signal has fired, no task prints an error    *)
(* line for a failure caused by the cancellation: neither the per-source   *)
(* error report in main, nor the polling adapter's fetch-error log, nor    *)
(* the Bridge Sender's send-error log is emitted for a cancelled           *)
(* operation.                                                              *)
(* Stated for the polling adapter's fetch-error log: no fetch error is     *)
(* printed once the signal has fired.                                      *)
(***************************************************************************)
C29_NoFetchErrorLoggedAfterCancel ==
    /\ [][pollLogged' # pollLogged => ~ctxDone]_vars
    /\ [](\A i \in 1..Len(pollLogged) : pollLogged[i] # ErrContext)

(***************************************************************************)
(* C30: a fatal error in one source adapter does not stop the others: the  *)
(* failed adapter's task ends, the remaining adapters keep emitting and    *)
(* their messages keep reaching the display, and the shared channel is     *)
(* closed (and the process exits) only after every configured adapter's    *)
(* Connect has returned.                                                   *)
(***************************************************************************)
\* there is room for one more message of an adapter
RoomToSend ==
    Len(messages) < ChanCap /\ Len(received) + Len(messages) < MaxMsgs

C30_OneFailureLeavesTheOthers ==
    /\ [][srcOpen' # srcOpen =>
            /\ \E src \in srcOpen : srcOpen' = srcOpen \ {src}
            /\ messagesClosed' = messagesClosed
            /\ messages' = messages
            /\ dispPc' = dispPc /\ printerPc' = printerPc]_vars
    /\ [](\A src \in srcOpen : RoomToSend => ENABLED SourceSendBy(src))
    /\ []((dispPc = "recv" /\ messages # <<>>) => ENABLED DispRecv)
    /\ [](messagesClosed => srcOpen = {})
    /\ [][messagesClosed' # messagesClosed => (srcOpen = {} /\ messagesClosed')]_vars

\* two adapters have returned, the third is running and a message of it
\* has been printed; the shared channel is open
C30_Witness ==
    /\ srcOpen = {"youtube"}
    /\ ~messagesClosed
    /\ sent = <<M_ttvTagged, M_yt>>
    /\ printed = <<M_ttvTagged, M_yt>>

(***************************************************************************)
(* C31: the composition of adapters, dispatcher, display sink and Bridge   *)
(* Sender never deadlocks: in every reachable state in which some task has *)
(* not terminated, at least one task can take a step, with bridging on or  *)
(* off. The display sink consumes whenever its channel holds a message.    *)
(* An adapter that has not returned is taken at its worst, standing at a   *)
(* send: it counts as able to step only if the shared channel has room.    *)
(* The cancellation signal is not counted as a step of a task.             *)
(***************************************************************************)
\* some task of the composition has not terminated
SomeTaskRuns ==
    \/ srcOpen # {}
    \/ ~messagesClosed
    \/ dispPc # "done"
    \/ printerPc # "done"
    \/ (bridge /\ upPc # "done")

\* an adapter standing at `messages <- msg` can send
AdapterCanSend == srcOpen # {} /\ Len(messages) < ChanCap

\* a step of main, of the dispatcher, of the display sink or of the Bridge
\* Sender (whose request ends within the HTTP client's timeout)
TaskStep ==
    \/ CloseMessages
    \/ DispRecv \/ DispPrint \/ DispOffer \/ DispClose
    \/ PrinterPrint \/ PrinterDone
    \/ UplinkTake \/ UplinkClosed \/ UplinkCanceled \/ UplinkSend
    \/ UplinkResponse \/ UplinkSendAborted \/ UplinkSendCanceled
    \/ UplinkCooldownOver

C31_NoDeadlock == SomeTaskRuns => (AdapterCanSend \/ ENABLED TaskStep)

\* the Bridge Sender has returned on the signal leaving its buffer full, the
\* shared channel is full under an adapter that has not returned, and the
\* dispatcher stands at its offer to the bridge channel
C31_Witness ==
    /\ bridge /\ ctxDone
    /\ upPc = "done"
    /\ Len(uplinkCh) = ChanCap
    /\ dispPc = "offer"
    /\ Len(messages) = ChanCap
    /\ srcOpen # {}
    /\ printerCh = <<>>

(***************************************************************************)
(* C32: a malformed JSON unit received by the socket adapter (a frame that *)
(* is not valid JSON as well as an inner message payload that fails to     *)
(* decode) is skipped as a single unit: no Message is emitted for it, the  *)
(* adapter does not return, and later well-formed frames are still         *)
(* processed: the step that meets the unit leaves the read loop at its     *)
(* next read, with nothing sent and no error.                              *)
(***************************************************************************)
\* the inner message of a data frame of the own subscription fails to decode
PayloadFailsToDecode(f) ==
    /\ f.type \notin ProtocolTypes
    /\ DenotesOwnKey(f.identifier)
    /\ f.message.present
    /\ ~(f.message.object /\ f.message.bodyOk)

\* the unit met in this step is skipped
UnitSkipped ==
    /\ loopPc' = "read"
    /\ pending' = <<>>
    /\ readErr' = readErr
    /\ emitted' = emitted
    /\ messages' = messages

\* an inner message that fails to decode is skipped
BadPayloadIsSkipped ==
    [][(FrameStep /\ PayloadFailsToDecode(NewFrame)) => UnitSkipped]_vars

C32_MalformedUnitIsSkipped ==
    /\ BadPayloadIsSkipped
    /\ [][ReadMalformed => UnitSkipped]_vars

(***************************************************************************)
(* C33 as stated: while the socket adapter is streaming, Connect's return  *)
(* value is decided by whichever happens first: if the cancellation signal *)
(* fires first, the adapter writes a close frame and returns the           *)
(* cancellation error; if the read loop ends first, Connect returns the    *)
(* read loop's error. (Fails: Connect looks at both only when its select   *)
(* runs, and with both ready the select takes either.)                     *)
(***************************************************************************)
\* Connect stands at its select
Streaming == connPc = "select"
SignalFired == ctxDone
LoopEnded == readErr # NoValue

\* Connect has returned from its select
ReturnedFromSelect == connPc = "returned" /\ SubscribeCommand \in Range(outbound)

C33_FirstEventDecides ==
    ReturnedFromSelect =>
        /\ firstEvent = "signal" =>
               /\ connectResult = ErrCanceled
               /\ outbound[Len(outbound)] = CloseFrame
        /\ firstEvent = "loop" => connectResult \notin {ErrCanceled, NoValue}

(***************************************************************************)
(* C33 amended: while streaming, Connect waits until the signal has fired  *)
(* or the read loop has ended. It then returns once: the cancellation      *)
(* error, after writing a close frame, only if the signal has fired; the   *)
(* read loop's error, without a close frame, only if the read loop has     *)
(* ended. If only one of the two has happened when the select runs, that   *)
(* one decides; if both have happened by then, whatever their order,       *)
(* either may be returned.                                                 *)
(***************************************************************************)
C33_SelectDecides ==
    /\ [][(Streaming /\ connPc' # connPc) =>
            /\ connPc' = "returned"
            /\ \/ /\ SignalFired
                  /\ connectResult' = ErrCanceled
                  /\ outbound' = Append(outbound, CloseFrame)
               \/ /\ LoopEnded
                  /\ connectResult' = readErr
                  /\ outbound' = outbound]_vars
    /\ [](Streaming => /\ ENABLED SelectCanceled <=> SignalFired
                       /\ ENABLED SelectReadErr <=> LoopEnded)

\* Connect has returned the read loop's error although the signal had fired
\* before its select ran; no close frame was written
C33_Witness ==
    /\ connPc = "returned"
    /\ firstEvent = "signal"
    /\ connectResult = ErrReadSyntax
    /\ outbound = <<SubscribeCommand>>

(***************************************************************************)
(* C34: no send is ever performed on the shared message channel after main *)
(* has closed it: at the moment close(messages) runs, no goroutine that    *)
(* can still send on the channel exists, including the socket adapter's    *)
(* read-loop goroutine: when the channel is closed the read loop has       *)
(* ended, and no send ever meets the closed channel.                       *)
(***************************************************************************)
\* the read loop has not ended: it can still send
LoopCanSend == loopPc \in {"read", "send"}

C34_NoSenderAtClose ==
    /\ [][(messagesClosed' /\ ~messagesClosed) => ~LoopCanSend]_vars
    /\ [](loopPc # "panic")

(***************************************************************************)
(* C35: once a source adapter's Connect has returned (for any reason,      *)
(* including cancellation), that adapter emits no further Message onto the *)
(* shared channel. Stated for the socket adapter: no step taken after      *)
(* Connect has returned adds to what the adapter has sent.                 *)
(***************************************************************************)
C35_SilentAfterReturn ==
    [][connPc = "returned" => emitted' = emitted]_vars

(***************************************************************************)
(* C36: every message an adapter has successfully sent on the shared       *)
(* channel is printed by the display sink before the process exits, unless *)
(* it is a suppressed echo: main does not exit while messages remain       *)
(* buffered in the shared channel or the display channel. Once the process *)
(* has exited, what was printed is what was sent, less the suppressed      *)
(* echoes, and both channels are empty.                                    *)
(***************************************************************************)
C36_AllSentPrintedAtExit ==
    printerPc = "exited" =>
        /\ printed = SelectSeq(sent, LAMBDA m : ~Suppressed(m))
        /\ messages = <<>>
        /\ printerCh = <<>>

(***************************************************************************)
(* C37: feedback loops are closed by construction: for every Twitch or     *)
(* YouTube message m, a socket-source message whose username equals the    *)
(* relay alias (in any letter case) and whose content is FormatContent(m)  *)
(* satisfies isBridgeEcho, including when FormatContent truncated m to 512 *)
(* bytes. The reflected message is the one the socket adapter makes of a   *)
(* packet carrying that alias and that content.                            *)
(***************************************************************************)
\* the relay alias in every letter case
AliasCases == {<<x, r>> : x \in {"X", "x"}, r \in {"R", "r"}}

\* what the socket adapter emits when the posted content comes back under
\* the alias written as `alias`
Reflected(content, alias) ==
    packetToMessage(Packet(9, content, "rfc3339", FALSE, alias))

\* FormatContent has been applied to a Twitch or YouTube message
Posted ==
    /\ callIn # NoValue
    /\ callIn.fn = "FormatContent"
    /\ callIn.arg.Platform \in {Twitch, YouTube}
    /\ callOut # NoValue

C37_ReflectionIsEcho ==
    Posted =>
        \A alias \in AliasCases :
            isBridgeEcho(Reflected(callOut.value, alias), RelayAlias)

\* a YouTube message whose formatted text was cut at 512 bytes
C37_Witness ==
    /\ Posted
    /\ callIn.arg.Platform = YouTube
    /\ Len(Sprintf(callIn.arg)) > MaxContent
    /\ Len(callOut.value) = MaxContent

(***************************************************************************)
(* C38: when bridging is disabled, the dispatcher performs no echo         *)
(* suppression and touches no bridge channel: every message received from  *)
(* the shared channel, including one that satisfies isBridgeEcho for the   *)
(* configured alias, is put on the display channel: what was displayed,    *)
(* followed by the message the dispatcher holds, is what it received, and  *)
(* nothing was ever offered to, dropped at or closed on the bridge side.   *)
(***************************************************************************)
\* the message the dispatcher has received and not yet displayed
ToDisplay == IF dispPc = "print" THEN <<dispMsg>> ELSE <<>>

C38_NoBridgeNoSuppression ==
    ~bridge =>
        /\ displayed \o ToDisplay = received
        /\ dispPc # "offer"
        /\ uplinkCh = <<>> /\ ~uplinkClosed
        /\ bridged = <<>> /\ dropped = <<>> /\ posted = <<>>
        /\ upPc = "off"

\* with the bridge off, a message that satisfies isBridgeEcho for the
\* configured alias has been displayed and printed
C38_Witness ==
    /\ ~bridge
    /\ isBridgeEcho(M_echoTTV, RelayAlias)
    /\ \E i \in 1..Len(displayed) : displayed[i] = M_echoTTV
    /\ \E i \in 1..Len(printed) : printed[i] = M_echoTTV

(***************************************************************************)
(* C39: a failed messages fetch in the polling adapter (request error,     *)
(* non-200 status, or undecodable body) leaves the stored page cursor and  *)
(* the stored polling interval unchanged and emits no Message.             *)
(***************************************************************************)
C39_FailedFetchChangesNothing ==
    [][FetchStepFailed =>
          /\ pageToken' = pageToken
          /\ pollingRate' = pollingRate
          /\ items' = items /\ pollPc' # "send"
          /\ pollEmitted' = pollEmitted
          /\ messages' = messages]_vars

\* after a fetch that stored the cursor t1 and kept the default interval, a
\* fetch answered 403 with a body holding another cursor, an interval and an
\* item has left both as they were
C39_Witness ==
    /\ Len(chatLog) = 2
    /\ ~FetchFailed(chatLog[1].resp)
    /\ chatLog[1].resp.nextPageToken = "t1"
    /\ chatLog[2].resp = ChatResponse(403, TRUE, "t2", 5000, <<I1>>)
    /\ pageToken = "t1"
    /\ pollingRate = DefaultPollingRate
    /\ pollPc = "wait"

(***************************************************************************)
(* C40: in the IRC adapter a read timeout loses no input: when the         *)
(* 1-second deadline expires after only part of a line has arrived, the    *)
(* bytes already read are kept, so every complete chat line sent by the    *)
(* server is parsed exactly once as a whole line and yields exactly one    *)
(* Message: what the adapter has emitted, with the message it is sending,  *)
(* is one Message per complete chat line among the bytes the reader has    *)
(* handed out, in order.                                                   *)
(***************************************************************************)
\* the bytes a read took out of the reader
BytesOf(got) ==
    IF got.kind = "line" THEN got.raw
    ELSE IF got.kind = "timeout" THEN got.part
    ELSE <<>>

\* the bytes of the server taken out of the reader so far
RECURSIVE BytesRead(_)
BytesRead(reads) ==
    IF reads = <<>> THEN <<>>
    ELSE BytesRead(SubSeq(reads, 1, Len(reads) - 1)) \o BytesOf(reads[Len(reads)])

\* the complete lines of a run of bytes, each with its line ending
RECURSIVE CompleteLines(_, _)
CompleteLines(bytes, begun) ==
    IF bytes = <<>> THEN <<>>
    ELSE IF Head(bytes) = "\n"
    THEN <<Append(begun, "\n")>> \o CompleteLines(Tail(bytes), <<>>)
    ELSE CompleteLines(Tail(bytes), Append(begun, Head(bytes)))

\* the Message a complete line stands for, if it is a chat line
ChatMessageOf(raw) ==
    LET line == TrimSpace(raw)
    IN IF ~HasPrefix(line, <<"PING">>) /\ parsePrivMsg(line).ok
       THEN <<parsePrivMsg(line).msg>>
       ELSE <<>>

RECURSIVE ChatMessagesOf(_)
ChatMessagesOf(lines) ==
    IF lines = <<>> THEN <<>>
    ELSE ChatMessageOf(Head(lines)) \o ChatMessagesOf(Tail(lines))

C40_TimeoutLosesNoInput ==
    ircEmitted \o (IF ircPc = "send" THEN <<ircMsg>> ELSE <<>>)
        = ChatMessagesOf(CompleteLines(BytesRead(ircReads), <<>>))
=============================================================================
